---- MODULE Spec2Model ----
(***************************************************************************)
(* AgriSage backend (src/backend): the request pipelines of /crop-profit,  *)
(* /govt-schemes, /smart-market and /weather-irrigation.  One request is   *)
(* served at a time; every provider call (an await in the code) is one     *)
(* step, and the code that runs between two provider calls belongs to the  *)
(* step of the call that precedes it.                                      *)
(*                                                                         *)
(* Provider text is a sequence of tokens: an opening brace, a closing      *)
(* brace, a word of prose, a JSON member (key and value) or a piece of     *)
(* text that is not JSON.  A JSON value carries its type, so that the      *)
(* code's isinstance checks and list operations can be decided.            *)
(***************************************************************************)
EXTENDS Integers, Sequences, FiniteSets, TLC

VARIABLES
    cap,        \* capability of the request being served, "none" when idle
    entry,      \* "api": through the HTTP endpoint; "direct": the orchestrator called with a user_input
    pc,         \* position of the request: idle, refine, fetch, sleep, expand, done
    user_input, \* the request; when accepted, the dict handed to the orchestrator
    attempt,    \* loop variable of the fetcher's retry loop
    fetchLog,   \* history: how each fetch attempt so far ended
    sleeps,     \* history: the delays passed to asyncio.sleep
    calls,      \* history: number of provider calls made, per stage
    fetched,    \* what the fetcher gave the orchestrator
    expanded,   \* what the expander gave the orchestrator
    reply,      \* history: the provider response received last
    tmp_file,   \* the temporary file of /crop-doctor: absent, written, removed
    orch,       \* what the orchestrator gave its caller
    http,       \* the HTTP answer of the endpoint
    tasks,      \* the event loop: where the coroutine of each concurrent request stands
    thread      \* the event loop: the request whose coroutine runs on its thread, 0 for none

\* the request that is followed from its arrival to its answer
request_vars == <<cap, entry, pc, user_input, attempt, fetchLog, sleeps, calls,
                  fetched, expanded, reply, tmp_file, orch, http>>

vars == <<request_vars, tasks, thread>>

-----------------------------------------------------------------------------
(* Bounds of the model *)

\* expected_yield literals are "0", "50", ..., 50 * YieldSteps (quintals)
YieldSteps == 2
\* total_cost literals are "0", "50000", ..., 50000 * CostSteps (rupees)
CostSteps == 2
\* requests the event loop serves at the same time
NumTasks == 2

-----------------------------------------------------------------------------
(* JSON values and documents *)

JStr(s) == [t |-> "str", s |-> s, l |-> <<>>]
JList(l) == [t |-> "list", s |-> "", l |-> l]
JNum(s) == [t |-> "num", s |-> s, l |-> <<>>]
JObj == [t |-> "obj", s |-> "", l |-> <<>>]

\* the Python value a JSON value decodes to: a list for a list, text otherwise
Native(v) == IF v.t = "list" THEN v.l ELSE v.s

\* isinstance(v, list)
IsList(v) == v.t = "list"

EmptyDoc == [k \in {} |-> JObj]

\* dict.get(key, default)
Get(d, key, default) == IF key \in DOMAIN d THEN d[key] ELSE default

\* what an orchestrator gave its caller
Pending(value) == [kind |-> "pending", value |-> value, exc |-> "", text |-> <<>>]
Returned(value) == [kind |-> "returned", value |-> value, exc |-> "", text |-> <<>>]
Raised(exc, text) == [kind |-> "raised", value |-> EmptyDoc, exc |-> exc, text |-> text]

-----------------------------------------------------------------------------
(* Provider text *)

LB == [c |-> "{", k |-> "", v |-> JObj]
RB == [c |-> "}", k |-> "", v |-> JObj]
W == [c |-> "w", k |-> "", v |-> JObj]
Garbage == [c |-> "x", k |-> "", v |-> JObj]
M(key, value) == [c |-> "m", k |-> key, v |-> value]

\* a JSON object serialized with the given members
Braced(members) == <<LB>> \o members \o <<RB>>

\* str.find(ch): index (from 0) of the first occurrence, -1 when there is none
find(text, ch) ==
    IF \E i \in 1..Len(text) : text[i].c = ch
    THEN (CHOOSE i \in 1..Len(text) :
             /\ text[i].c = ch
             /\ \A j \in 1..(i - 1) : text[j].c # ch) - 1
    ELSE -1

\* str.rfind(ch): index (from 0) of the last occurrence, -1 when there is none
rfind(text, ch) ==
    IF \E i \in 1..Len(text) : text[i].c = ch
    THEN (CHOOSE i \in 1..Len(text) :
             /\ text[i].c = ch
             /\ \A j \in (i + 1)..Len(text) : text[j].c # ch) - 1
    ELSE -1

\* the slice stops one short of end
Slice_short(text, start, end) == SubSeq(text, start + 1, end - 1)

\* text[start:end] for start >= 0 and end >= 0 (empty when end <= start)
Slice(text, start, end) == SubSeq(text, start + 1, end)

\* json.loads succeeds on exactly one serialized object
json_decodes(text) ==
    /\ Len(text) >= 2
    /\ text[1] = LB
    /\ text[Len(text)] = RB
    /\ \A i \in 2..(Len(text) - 1) : text[i].c = "m"

\* json.loads: the decoded dict; of two members with one key the later wins
json_loads(text) ==
    LET keys == {text[i].k : i \in 2..(Len(text) - 1)}
        last(key) == CHOOSE i \in 2..(Len(text) - 1) :
                        /\ text[i].k = key
                        /\ \A j \in (i + 1)..(Len(text) - 1) : text[j].k # key
    IN  [key \in keys |-> text[last(key)].v]

\* the extraction step every provider-text consumer repeats:
\* start = find('{'); end = rfind('}') + 1; slice; json.loads
ExtractStart(text) == find(text, "{")
ExtractEnd(text) == rfind(text, "}") + 1

\* only the opening brace is looked for
BracesFound_start_only(text) == ExtractStart(text) # -1

BracesFound(text) == ExtractStart(text) # -1 /\ ExtractEnd(text) # 0
JsonStr(text) == Slice(text, ExtractStart(text), ExtractEnd(text))

-----------------------------------------------------------------------------
(* Error texts, as sequences of words *)

Lower(w) ==
    CASE w = "Unable" -> "unable"
      [] w = "Service" -> "service"
      [] w = "Failed" -> "failed"
      [] w = "Perplexity:" -> "perplexity:"
      [] w = "An" -> "an"
      [] w = "Connection" -> "connection"
      [] w = "Expecting" -> "expecting"
      [] OTHER -> w

\* str.lower()
lower(msg) == [i \in 1..Len(msg) |-> Lower(msg[i])]

\* needle in haystack
Contains(haystack, needle) ==
    \E i \in 0..(Len(haystack) - Len(needle)) :
        \A j \in 1..Len(needle) : haystack[i + j] = needle[j]

UnableToFetch == <<"unable", "to", "fetch">>

\* str(e) of the exceptions the provider clients raise
RequestErrorText == <<"Connection", "refused">>
StatusErrorText == <<"Server", "error", "'500", "Internal", "Server", "Error'">>
DecodeErrorText == <<"Expecting", "value">>
KeyErrorText == <<"'choices'">>
ProviderErrorText == <<"quota", "exceeded">>

-----------------------------------------------------------------------------
(* Numbers: a float is held exactly, in tenths *)

YieldNumbers == {50 * k : k \in 0..YieldSteps}
CostNumbers == {50000 * k : k \in 0..CostSteps}
HalfLiteral == "0.5"
NotANumber == "100 q"

\* float(s) raises ValueError unless s is a decimal literal
float_ok(s) ==
    \/ \E n \in YieldNumbers \cup CostNumbers : ToString(n) = s
    \/ s = HalfLiteral

\* float(s), in tenths
float(s) ==
    IF s = HalfLiteral
    THEN 5
    ELSE 10 * (CHOOSE n \in YieldNumbers \cup CostNumbers : ToString(n) = s)

\* int(n / d): truncation toward zero
int(n, d) == IF n >= 0 THEN n \div d ELSE -((-n) \div d)

\* round(n / d) to the nearest integer, ties to even, for d > 0
RoundHalfEven(n, d) ==
    LET q == n \div d
        r == n % d
    IN  IF 2 * r < d THEN q
        ELSE IF 2 * r > d THEN q + 1
        ELSE IF q % 2 = 0 THEN q ELSE q + 1

RECURSIVE GCD(_, _)
GCD(a, b) == IF b = 0 THEN a ELSE GCD(b, a % b)

\* f"{x:.1f}" of the number n / d, for d > 0
Format1f(n, d) ==
    LET a == IF n >= 0 THEN n ELSE -n
        g == GCD(a, d)
        t == RoundHalfEven(10 * (a \div g), d \div g)
    IN  (IF n < 0 THEN "-" ELSE "") \o ToString(t \div 10) \o "." \o ToString(t % 10)

-----------------------------------------------------------------------------
(* profit_prediction.py *)

max_retries == 3

price_ranges ==
    [rice |-> [min |-> 1800, max |-> 2500, unit |-> "per quintal"],
     wheat |-> [min |-> 2000, max |-> 2400, unit |-> "per quintal"],
     maize |-> [min |-> 1500, max |-> 2100, unit |-> "per quintal"],
     sugarcane |-> [min |-> 280, max |-> 350, unit |-> "per quintal"],
     cotton |-> [min |-> 5000, max |-> 6000, unit |-> "per quintal"],
     groundnut |-> [min |-> 4500, max |-> 5500, unit |-> "per quintal"],
     soybean |-> [min |-> 3500, max |-> 4200, unit |-> "per quintal"],
     mustard |-> [min |-> 4000, max |-> 5000, unit |-> "per quintal"],
     potato |-> [min |-> 1000, max |-> 1500, unit |-> "per quintal"],
     tomato |-> [min |-> 1200, max |-> 3000, unit |-> "per quintal"],
     onion |-> [min |-> 1500, max |-> 3500, unit |-> "per quintal"],
     chili |-> [min |-> 6000, max |-> 10000, unit |-> "per quintal"],
     turmeric |-> [min |-> 6500, max |-> 8500, unit |-> "per quintal"],
     banana |-> [min |-> 2500, max |-> 4000, unit |-> "per quintal"],
     mango |-> [min |-> 4000, max |-> 8000, unit |-> "per quintal"]]

default_price_range == [min |-> 2000, max |-> 3000, unit |-> "per quintal"]

\* crop_name.lower()
crop_lower(crop_name) ==
    CASE crop_name = "Wheat" -> "wheat"
      [] crop_name = "Sugarcane" -> "sugarcane"
      [] crop_name = "Unknown" -> "unknown"
      [] OTHER -> crop_name

get_market_price_range(crop_name) ==
    Get(price_ranges, crop_lower(crop_name), default_price_range)

\* market_price_range before the table has been consulted (None)
NoRange == [min |-> 0, max |-> 0, unit |-> "None"]

\* the lower end of the range taken for the average
avg_market_price_min_only(info) == 2 * info.min

\* twice avg_market_price = (min + max) / 2
avg_market_price_x2(info) == info.min + info.max

\* a profit response, lines 324-334
ProfitDefaults ==
    [estimated_revenue |-> "0",
     estimated_profit |-> "0",
     roi |-> "0",
     analysis |-> "",
     risk_assessment |-> "",
     risk_factors |-> <<>>,
     market_outlook |-> "",
     market_price_range |-> NoRange,
     sources |-> <<>>]

\* the three figures of every numeric fallback, from amounts in twentieths:
\* estimated_revenue = expected_yield * avg_market_price,
\* estimated_profit = estimated_revenue - total_cost,
\* roi = profit / total_cost * 100 if total_cost > 0, else the given sentinel
Figures(ui, sentinel) ==
    LET crop_name == Get(ui, "crop_name", "Unknown")
        expected_yield == float(Get(ui, "expected_yield", "0"))
        total_cost == float(Get(ui, "total_cost", "0"))
        info == get_market_price_range(crop_name)
        revenue20 == expected_yield * avg_market_price_x2(info)
        profit20 == revenue20 - 2 * total_cost
    IN  [estimated_revenue |-> ToString(int(revenue20, 20)),
         estimated_profit |-> ToString(int(profit20, 20)),
         roi |-> IF total_cost > 0
                 THEN Format1f(profit20 * 50, total_cost)
                 ELSE Format1f(sentinel, 1)]

\* float() of the user's figures succeeds (lines 338-340, 407-408)
FiguresParse(ui, keys) == \A k \in keys : float_ok(Get(ui, k, "0"))

\* response.update(fields)
Update(response, fields) ==
    [k \in DOMAIN response \cup DOMAIN fields |->
        IF k \in DOMAIN fields THEN fields[k] ELSE response[k]]

\* lines 353-368: the fetcher gave nothing
profit_no_data(response, ui) ==
    Update(response,
        Figures(ui, 0) @@
        [analysis |-> "Calculation for",
         risk_assessment |-> "Market data unavailable.",
         market_outlook |-> "Current market price",
         sources |-> <<"market_data", "calculation">>])

\* lines 382-400: the expander gave nothing
profit_expand_none(response, ui) ==
    Update(response,
        Figures(ui, 0) @@
        [analysis |-> "Based on current market rates for",
         risk_assessment |-> "Consider market volatility, weather risks, and input cost changes.",
         market_outlook |-> "Current market price; may vary",
         risk_factors |-> <<"Market Price Volatility", "Weather Risk", "Input Cost Inflation">>])

\* the handler gives up on the figures whatever the input
profit_except_gives_up(response, ui) ==
    Update(response,
        [estimated_revenue |-> "0",
         estimated_profit |-> "0",
         roi |-> "0",
         analysis |-> "Unable to calculate profit",
         risk_assessment |-> "Please check your input data and try again.",
         sources |-> <<"error">>])

\* lines 402-434: the handler of any exception raised inside the try block
profit_except(response, ui) ==
    IF FiguresParse(ui, {"expected_yield", "total_cost"})
    THEN Update(response,
            Figures(ui, 1) @@
            [analysis |-> "Basic profit calculation for",
             risk_assessment |-> "Unable to perform detailed analysis due to technical issues.",
             market_price_range |-> get_market_price_range(Get(ui, "crop_name", "Unknown")),
             sources |-> <<"fallback_calculation">>])
    ELSE Update(response,
            [estimated_revenue |-> "0",
             estimated_profit |-> "0",
             roi |-> "0",
             analysis |-> "Unable to calculate profit",
             risk_assessment |-> "Please check your input data and try again.",
             sources |-> <<"error">>])

\* the handler rethrows instead of answering with the fallback
predict_crop_profit_rethrows(response, ui) ==
    Raised("ProfitPredictionError", <<"Failed">>)

\* lines 402-436: what predict_crop_profit gives its caller once an exception
\* was raised inside the try block
predict_crop_profit_caught(response, ui) == Returned(profit_except(response, ui))

\* lines 375-379: every key of the expanded document that the response has
profit_overwrite(response, doc) ==
    [k \in DOMAIN response |->
        IF k \in DOMAIN doc THEN Native(doc[k]) ELSE response[k]]

\* line 381 raises AttributeError when the overwritten sources is no list
profit_append_raises(doc) == "sources" \in DOMAIN doc /\ ~IsList(doc["sources"])

\* lines 375-381
profit_expanded(response, doc) ==
    LET r == profit_overwrite(response, doc)
    IN  [r EXCEPT !.sources = Append(@, "gemini")]

-----------------------------------------------------------------------------
(* What a provider call can give *)

\* an HTTP answer of the search provider (httpx): a transport failure
\* (httpx.RequestError, timeouts included), an error status, a 200 body
\* without "choices", or a 200 body whose message content is `text`
Answer(kind, text) == [kind |-> kind, text |-> text]

\* an answer of the generative model: an exception, or response.text
Generated(kind, text) == [kind |-> kind, text |-> text]

\* what one pass of a fetcher's retry loop does next
ReturnDoc(doc, why) == [ctl |-> "return", doc |-> doc, exc |-> "", text |-> <<>>, why |-> why]
ReturnNone(why) == [ctl |-> "none", doc |-> EmptyDoc, exc |-> "", text |-> <<>>, why |-> why]
Raise(exc, text, why) == [ctl |-> "raise", doc |-> EmptyDoc, exc |-> exc, text |-> text, why |-> why]
Sleep(why) == [ctl |-> "sleep", doc |-> EmptyDoc, exc |-> "", text |-> <<>>, why |-> why]
Continue(why) == [ctl |-> "continue", doc |-> EmptyDoc, exc |-> "", text |-> <<>>, why |-> why]

\* every document counts as data
Truthy_any(doc) == TRUE

\* bool(d) of a dict
Truthy(doc) == DOMAIN doc # {}

-----------------------------------------------------------------------------
(* profit_prediction.py: refiner, fetcher, expander *)

\* lines 74-101: the refined query, or ProfitPredictionError
profit_refine_ok(resp) == resp.kind = "text" /\ resp.text # <<>>

profit_refine_error(resp) ==
    <<"Failed", "to", "refine", "query:">> \o
        (IF resp.kind = "exception" THEN ProviderErrorText
         ELSE <<"Failed", "to", "process", "query">>)

profit_required_sections == {"market_data", "input_costs", "yield_data", "risk_factors"}

\* lines 207-210: the except clause of the retry loop
profit_fetch_caught(att, text, why) ==
    IF att = max_retries - 1
    THEN Raise("ProfitPredictionError", <<"Failed", "to", "query", "Perplexity:">> \o text, why)
    ELSE Sleep(why)

\* lines 193-201: the validation loop; its `continue` continues the loop over
\* the sections, so a document with a section missing is returned unless this
\* is the last attempt
profit_validate(att, result) ==
    IF \E section \in profit_required_sections : section \notin DOMAIN result
    THEN IF att = max_retries - 1
         THEN ReturnNone("missing_field")
         ELSE ReturnDoc(result, "missing_field")
    ELSE ReturnDoc(result, "ok")

\* lines 169-214: one pass of the retry loop of query_perplexity_for_profit_data
query_perplexity_for_profit_data(att, resp) ==
    CASE resp.kind = "request_error" -> profit_fetch_caught(att, RequestErrorText, "transport")
      [] resp.kind = "http_error" -> Raise("HTTPStatusError", StatusErrorText, "http_status")
      [] resp.kind = "no_choices" -> profit_fetch_caught(att, KeyErrorText, "key_error")
      [] OTHER ->
            IF BracesFound(resp.text)
            THEN IF json_decodes(JsonStr(resp.text))
                 THEN profit_validate(att, json_loads(JsonStr(resp.text)))
                 ELSE profit_fetch_caught(att, DecodeErrorText, "parse_error")
            ELSE IF att = max_retries - 1
                 THEN ReturnNone("not_found")
                 ELSE Sleep("not_found")

profit_required_fields ==
    {"crop_name", "region", "estimated_yield", "market_price", "total_cost",
     "expected_revenue", "expected_profit", "risk_factors", "recommendation", "notes"}

\* the expander hands on whatever object it parsed
expand_profit_prediction_unvalidated(resp) ==
    IF resp.kind = "exception" \/ resp.text = <<>> \/ ~BracesFound(resp.text)
    THEN [kind |-> "none", doc |-> EmptyDoc]
    ELSE IF ~json_decodes(JsonStr(resp.text))
    THEN [kind |-> "none", doc |-> EmptyDoc]
    ELSE [kind |-> "doc", doc |-> json_loads(JsonStr(resp.text))]

\* lines 232-306: expand_profit_prediction_with_gemini, None as "none"
expand_profit_prediction_with_gemini(resp) ==
    IF resp.kind = "exception" \/ resp.text = <<>> \/ ~BracesFound(resp.text)
    THEN [kind |-> "none", doc |-> EmptyDoc]
    ELSE IF ~json_decodes(JsonStr(resp.text))
    THEN [kind |-> "none", doc |-> EmptyDoc]
    ELSE LET result == json_loads(JsonStr(resp.text))
         IN  IF \E field \in profit_required_fields : field \notin DOMAIN result
             THEN [kind |-> "none", doc |-> EmptyDoc]
             ELSE IF ~IsList(result["risk_factors"])
             THEN [kind |-> "none", doc |-> EmptyDoc]
             ELSE [kind |-> "doc", doc |-> result]

-----------------------------------------------------------------------------
(* scheme_advisor.py *)

NoError == <<>>

\* lines 51-78
scheme_refine_ok(resp) == resp.kind = "text" /\ resp.text # <<>>

scheme_refine_error(resp) ==
    <<"Failed", "to", "refine", "query:">> \o
        (IF resp.kind = "exception" THEN ProviderErrorText
         ELSE <<"Failed", "to", "process", "query">>)

\* lines 173-176: the except clause of the retry loop
scheme_fetch_caught(att, text, why) ==
    IF att = max_retries - 1
    THEN Raise("SchemeAdvisorError", <<"Failed", "to", "query", "Perplexity:">> \o text, why)
    ELSE Sleep(why)

\* line 160: not isinstance(result.get("schemes"), list) or len(result["schemes"]) == 0
schemes_invalid(result, key) ==
    \/ key \notin DOMAIN result
    \/ ~IsList(result[key])
    \/ Len(result[key].l) = 0

\* lines 137-180: one pass of the retry loop of query_perplexity_for_schemes;
\* the `continue` of line 164 starts the next attempt without the backoff
query_perplexity_for_schemes(att, resp) ==
    CASE resp.kind = "request_error" -> scheme_fetch_caught(att, RequestErrorText, "transport")
      [] resp.kind = "http_error" -> Raise("HTTPStatusError", StatusErrorText, "http_status")
      [] resp.kind = "no_choices" -> scheme_fetch_caught(att, KeyErrorText, "key_error")
      [] OTHER ->
            IF BracesFound(resp.text)
            THEN IF json_decodes(JsonStr(resp.text))
                 THEN LET result == json_loads(JsonStr(resp.text))
                      IN  IF schemes_invalid(result, "schemes")
                          THEN IF att = max_retries - 1
                               THEN ReturnNone("missing_field")
                               ELSE Continue("missing_field")
                          ELSE ReturnDoc(result, "ok")
                 ELSE scheme_fetch_caught(att, DecodeErrorText, "parse_error")
            ELSE IF att = max_retries - 1
                 THEN ReturnNone("not_found")
                 ELSE Sleep("not_found")

scheme_required_fields == {"matched_schemes", "personalized_recommendation", "next_steps"}

\* lines 198-267: expand_scheme_info_with_gemini, None as "none"
expand_scheme_info_with_gemini(resp) ==
    IF resp.kind = "exception" \/ resp.text = <<>> \/ ~BracesFound(resp.text)
    THEN [kind |-> "none", doc |-> EmptyDoc]
    ELSE IF ~json_decodes(JsonStr(resp.text))
    THEN [kind |-> "none", doc |-> EmptyDoc]
    ELSE LET result == json_loads(JsonStr(resp.text))
         IN  IF \E field \in scheme_required_fields : field \notin DOMAIN result
             THEN [kind |-> "none", doc |-> EmptyDoc]
             ELSE IF schemes_invalid(result, "matched_schemes")
             THEN [kind |-> "none", doc |-> EmptyDoc]
             ELSE [kind |-> "doc", doc |-> result]

\* lines 285-291
SchemeDefaults ==
    [matched_schemes |-> <<>>,
     personalized_recommendation |-> "",
     next_steps |-> "",
     error |-> NoError,
     sources |-> <<>>]

\* lines 300-302
scheme_no_data(response) ==
    [response EXCEPT !.error =
        <<"Unable", "to", "fetch", "scheme", "data.", "Service", "temporarily", "unavailable.">>]

\* lines 309-315
scheme_expanded(response, doc) ==
    Update(response,
        [matched_schemes |-> Native(doc["matched_schemes"]),
         personalized_recommendation |-> Native(doc["personalized_recommendation"]),
         next_steps |-> Native(doc["next_steps"]),
         sources |-> <<"perplexity", "gemini">>])

\* lines 316-321
scheme_expand_none(response, perplexity_data) ==
    Update(response,
        [matched_schemes |-> Native(Get(perplexity_data, "schemes", JList(<<>>))),
         personalized_recommendation |-> "Based on your profile, consider reviewing the schemes listed above.",
         next_steps |-> "Contact your local agricultural extension office for application assistance.",
         error |-> <<"Unable", "to", "generate", "personalized", "recommendations.">>])

\* lines 323-328: the two handlers of analyze_schemes
scheme_except(response, exc, text) ==
    [response EXCEPT !.error =
        IF exc = "SchemeAdvisorError"
        THEN text
        ELSE <<"An", "unexpected", "error", "occurred:">> \o text]

-----------------------------------------------------------------------------
(* advisor.py *)

\* lines 69-92: query_perplexity_for_price_trends, a single attempt
query_perplexity_for_price_trends(resp) ==
    CASE resp.kind = "request_error" -> ReturnNone("transport")
      [] resp.kind = "http_error" -> Raise("HTTPStatusError", StatusErrorText, "http_status")
      [] resp.kind = "no_choices" -> ReturnNone("key_error")
      [] OTHER ->
            IF BracesFound(resp.text)
            THEN IF json_decodes(JsonStr(resp.text))
                 THEN ReturnDoc(json_loads(JsonStr(resp.text)), "ok")
                 ELSE ReturnNone("parse_error")
            ELSE ReturnNone("not_found")

advice_required_fields ==
    {"recommended_action", "confidence", "rationale", "alternate_markets", "notes"}

\* lines 110-154: ask_gemini_for_advice, None as "none"
ask_gemini_for_advice(resp) ==
    IF resp.kind = "exception" \/ ~BracesFound(resp.text)
    THEN [kind |-> "none", doc |-> EmptyDoc]
    ELSE IF ~json_decodes(JsonStr(resp.text))
    THEN [kind |-> "none", doc |-> EmptyDoc]
    ELSE LET result == json_loads(JsonStr(resp.text))
         IN  IF \E field \in advice_required_fields : field \notin DOMAIN result
             THEN [kind |-> "none", doc |-> EmptyDoc]
             ELSE [kind |-> "doc", doc |-> result]

\* lines 180-185
market_response(crop_name, region, trend_info) ==
    [crop_name |-> crop_name,
     region |-> region,
     trend_info |-> trend_info,
     sources |-> <<"perplexity">>]

\* only the sources tell of the advice
market_with_advice_sources_only(response, advice) ==
    Update(response, [sources |-> <<"perplexity", "gemini">>])

\* lines 188-196
market_with_advice(response, advice) ==
    Update(response,
        [recommended_action |-> advice["recommended_action"],
         confidence |-> advice["confidence"],
         rationale |-> advice["rationale"],
         alternate_markets |-> advice["alternate_markets"],
         notes |-> advice["notes"],
         sources |-> <<"perplexity", "gemini">>])

-----------------------------------------------------------------------------
(* weather_irrigation.py *)

\* lines 68-111: one pass of the retry loop of query_perplexity_for_weather;
\* a body without "choices" reads as an empty forecast
query_perplexity_for_weather(att, resp) ==
    CASE resp.kind \in {"request_error", "http_error"} ->
            IF att = max_retries - 1
            THEN ReturnNone(IF resp.kind = "http_error" THEN "http_status" ELSE "transport")
            ELSE Sleep(IF resp.kind = "http_error" THEN "http_status" ELSE "transport")
      [] resp.kind = "no_choices" -> ReturnDoc([raw_forecast |-> <<>>], "ok")
      [] OTHER -> ReturnDoc([raw_forecast |-> resp.text], "ok")

\* The forecast text. content.split("\n\n") gives sections, section.split("\n")
\* lines; a line is a sequence of tokens, a token a word (or a heading of
\* several words, or a bullet) with the punctuation that follows it. The
\* white space between tokens is not kept.
Tok(w, p) == [w |-> w, p |-> p]
Dash == Tok("-", "")
Star == Tok("*", "")
Space == Tok(" ", "")

\* content.split("\n\n"): the empty text is one section of one empty line
Sections(content) == IF content = <<>> THEN << << <<>> >> >> ELSE content

\* the needles of the parser that a word holds, letter case respected
cs_in(w) ==
    CASE w = "Current conditions" -> {"Current conditions"}
      [] w = "7-day forecast" -> {"7-day forecast"}
      [] w \in {"Temperature", "Humidity", "Wind", "Rainfall"} -> {w}
      [] OTHER -> {}

\* the needles of the parser that word.lower() holds
ci_in(w) ==
    CASE w \in {"Current conditions", "CURRENT CONDITIONS"} -> {}
      [] w \in {"7-day forecast", "7-Day Forecast"} -> {}
      [] w = "Soil moisture" -> {"soil moisture"}
      [] w = "Irrigation" -> {"irrigation"}
      [] w = "Field actions" -> {"field actions"}
      [] w = "Practical guidance" -> {"practical guidance", "practical", "guidance"}
      [] w = "Crop protection" -> {"protection"}
      [] w = "Alerts" -> {"alert"}
      [] w = "Heat warning" -> {"warning"}
      [] w = "Note" -> {"note"}
      [] w = "water" -> {"water"}
      [] w = "Conserve" -> {"conserv"}
      [] w = "Mon" -> {"mon"}
      [] w = "Tue" -> {"tue"}
      [] w = "Monitor" -> {"mon"}
      [] w = "sunny" -> {"sun"}
      [] OTHER -> {}

LineHas(line, needle) == \E k \in 1..Len(line) : needle \in cs_in(line[k].w)
LineHasLower(line, needle) == \E k \in 1..Len(line) : needle \in ci_in(line[k].w)
SectionHas(section, needle) == \E i \in 1..Len(section) : LineHas(section[i], needle)
SectionHasLower(section, needle) ==
    \E i \in 1..Len(section) : LineHasLower(section[i], needle)

\* the first section that passes the test, "" (no line at all) when none does
FirstSection(sections, Test(_)) ==
    IF \E i \in 1..Len(sections) : Test(sections[i])
    THEN sections[CHOOSE i \in 1..Len(sections) :
                     /\ Test(sections[i])
                     /\ \A j \in 1..(i - 1) : ~Test(sections[j])]
    ELSE <<>>

\* part.split(";")[0].strip(): the tokens up to the first semicolon
UntilSemicolon(tokens) ==
    IF \E k \in 1..Len(tokens) : tokens[k].p = ";"
    THEN LET k == CHOOSE n \in 1..Len(tokens) :
                     /\ tokens[n].p = ";"
                     /\ \A j \in 1..(n - 1) : tokens[j].p # ";"
         IN  SubSeq(tokens, 1, k - 1) \o <<Tok(tokens[k].w, "")>>
    ELSE tokens

\* the place of the first token of a line that passes the test, 0 for none
FirstToken(line, Test(_)) ==
    IF \E k \in 1..Len(line) : Test(line[k])
    THEN CHOOSE k \in 1..Len(line) : Test(line[k]) /\ \A j \in 1..(k - 1) : ~Test(line[j])
    ELSE 0

\* line.split(label)[1]: what stands between the first and the second
\* occurrence of the label
AfterFirst(line, Test(_)) ==
    LET k == FirstToken(line, Test)
        rest == SubSeq(line, k + 1, Len(line))
        n == FirstToken(rest, Test)
    IN  IF n = 0 THEN rest ELSE SubSeq(rest, 1, n - 1)

IsLabel(t, label) == t.w = label /\ t.p = ":"

\* lines 201-202, 209-210, 217-218: the value that follows "<label>:"
LabelValue(line, label) ==
    LET Test(t) == IsLabel(t, label) IN UntilSemicolon(AfterFirst(line, Test))

\* value.strip(":") at the end of a value
StripColon(tokens) ==
    IF tokens # <<>> /\ tokens[Len(tokens)].p = ":"
    THEN SubSeq(tokens, 1, Len(tokens) - 1) \o <<Tok(tokens[Len(tokens)].w, "")>>
    ELSE tokens

\* lines 225-226: line.split("Rainfall")[1].strip().split(";")[0].strip().strip(":");
\* what is split off begins with the punctuation of the label, and when that
\* is a colon the blank after it survives the two strips
RainfallValue(line) ==
    LET Test(t) == "Rainfall" \in cs_in(t.w)
        label == line[FirstToken(line, Test)]
        value == StripColon(UntilSemicolon(AfterFirst(line, Test)))
    IN  CASE label.p = ";" -> <<>>
          [] label.p = ":" -> IF value = <<>> THEN <<>> ELSE <<Space>> \o value
          [] OTHER -> value

NotAvailable == <<Tok("Not available", "")>>

\* lines 189-192
conditions_default ==
    [temperature |-> NotAvailable, humidity |-> NotAvailable,
     wind_speed |-> NotAvailable, rainfall_last_24h |-> NotAvailable]

\* lines 197-228: one line of the current section, an if/elif chain in which
\* the first label found on the line is the only one read
conditions_line(found, line) ==
    IF \E k \in 1..Len(line) : IsLabel(line[k], "Temperature")
    THEN [found EXCEPT !.temperature = LabelValue(line, "Temperature")]
    ELSE IF \E k \in 1..Len(line) : IsLabel(line[k], "Humidity")
    THEN [found EXCEPT !.humidity = LabelValue(line, "Humidity")]
    ELSE IF \E k \in 1..Len(line) : IsLabel(line[k], "Wind")
    THEN [found EXCEPT !.wind_speed = LabelValue(line, "Wind")]
    ELSE IF LineHas(line, "Rainfall")
    THEN [found EXCEPT !.rainfall_last_24h = RainfallValue(line)]
    ELSE found

RECURSIVE conditions_lines(_, _)
\* lines 195-196: the loop over the lines of the current section
conditions_lines(found, lines) ==
    IF lines = <<>> THEN found
    ELSE conditions_lines(conditions_line(found, Head(lines)), Tail(lines))

\* lines 176-186: the section the current conditions are read from
current_section(sections) ==
    LET Test(section) == SectionHas(section, "Current conditions")
    IN  IF \E i \in 1..Len(sections) : Test(sections[i])
        THEN FirstSection(sections, Test)
        ELSE sections[1]

\* lines 176-239
current_conditions(content) ==
    conditions_lines(conditions_default, current_section(Sections(content)))

RECURSIVE Flatten(_)
\* the sequences of a sequence, one after the other
Flatten(seqs) == IF seqs = <<>> THEN <<>> ELSE Head(seqs) \o Flatten(Tail(seqs))

\* the lines of the sections that pass the test, in order
LinesOf(sections, Test(_)) ==
    Flatten([i \in 1..Len(sections) |-> IF Test(sections[i]) THEN sections[i] ELSE <<>>])

\* line.strip(chars).strip(): the line without the bullets at its two ends
StripBullets(line, bullets) ==
    IF \A k \in 1..Len(line) : line[k] \in bullets
    THEN <<>>
    ELSE LET Keep(t) == t \notin bullets
             first == FirstToken(line, Keep)
             last == CHOOSE k \in 1..Len(line) :
                        /\ Keep(line[k])
                        /\ \A j \in (k + 1)..Len(line) : ~Keep(line[j])
         IN  SubSeq(line, first, last)

EndsWithColon(line) == line # <<>> /\ line[Len(line)].p = ":"
HasColon(line) == \E k \in 1..Len(line) : line[k].p = ":"

\* tokens.split(":")[0]: up to the first colon, the colon left out
BeforeColon(line) ==
    LET Test(t) == t.p = ":"
        k == FirstToken(line, Test)
    IN  IF k = 0 THEN line ELSE SubSeq(line, 1, k - 1) \o <<Tok(line[k].w, "")>>

\* tokens.split(":")[1]: between the first colon and the second
AfterColon(line) ==
    LET Test(t) == t.p = ":" IN BeforeColon(SubSeq(line, FirstToken(line, Test) + 1, Len(line)))

Days == {"mon", "tue", "wed", "thu", "fri", "sat", "sun"}

\* line 251: "- " in line, and the lowered line holds a day's abbreviation
is_forecast_line(line) ==
    /\ \E k \in 1..(Len(line) - 1) : line[k] = Dash
    /\ \E k \in 1..Len(line) : ci_in(line[k].w) \cap Days # {}

\* lines 253-256
forecast_day(line) ==
    [date |-> StripBullets(BeforeColon(line), {Dash}),
     conditions |-> IF HasColon(line) THEN AfterColon(line) ELSE StripBullets(line, {Dash})]

\* lines 241-261
daily_forecast(content) ==
    LET Test(section) == SectionHas(section, "7-day forecast")
        lines == SelectSeq(FirstSection(Sections(content), Test), is_forecast_line)
    IN  [i \in 1..Len(lines) |-> forecast_day(lines[i])]

Bullets == {Dash, Star}

irrigation_keywords == {"field actions", "soil moisture", "practical guidance", "irrigation"}

\* lines 275-281 and 287-293
irrigation_action(action, timing, reason) ==
    [day |-> "Daily", action |-> action, water_liters |-> 0, timing |-> timing, reason |-> reason]

irrigation_default ==
    <<irrigation_action(<<Tok("Monitor soil moisture and irrigate as needed", "")>>,
                        "Early morning", "Standard practice for dry conditions")>>

\* lines 266-293
irrigation_schedule(content) ==
    LET Test(section) == \E keyword \in irrigation_keywords : SectionHasLower(section, keyword)
        Bulleted(line) == line # <<>> /\ line[1] \in Bullets
        Acts(line) == StripBullets(line, Bullets) # <<>> /\ ~EndsWithColon(StripBullets(line, Bullets))
        lines == SelectSeq(SelectSeq(LinesOf(Sections(content), Test), Bulleted), Acts)
    IN  IF lines = <<>>
        THEN irrigation_default
        ELSE [i \in 1..Len(lines) |->
                irrigation_action(StripBullets(lines[i], Bullets), "As needed",
                                  "Based on conditions and forecast")]

\* the stripped lines of the sections that pass the test which say something:
\* not empty and not ending in a colon
TellingLines(content, Test(_)) ==
    LET lines == LinesOf(Sections(content), Test)
        stripped == [i \in 1..Len(lines) |-> StripBullets(lines[i], Bullets)]
        Telling(line) == line # <<>> /\ ~EndsWithColon(line)
    IN  SelectSeq(stripped, Telling)

\* lines 308-313
alerts(content) ==
    LET Test(section) == SectionHasLower(section, "alert") \/ SectionHasLower(section, "warning")
        NotANote(line) == ci_in(line[1].w) \cap {"note", "context"} = {}
    IN  SelectSeq(TellingLines(content, Test), NotANote)

guidance_keywords == {"guidance", "field actions", "practical", "protection"}

AboutWater(line) == LineHasLower(line, "conserv") \/ LineHasLower(line, "water")
NotAboutWater(line) == ~AboutWater(line)

\* lines 316-324
conservation_tips(content) ==
    LET Test(section) == \E keyword \in guidance_keywords : SectionHasLower(section, keyword)
    IN  SelectSeq(TellingLines(content, Test), AboutWater)

protective_measures(content) ==
    LET Test(section) == \E keyword \in guidance_keywords : SectionHasLower(section, keyword)
    IN  SelectSeq(TellingLines(content, Test), NotAboutWater)

\* lines 327-332 and 342: the joined notes
notes(content) ==
    LET Test(section) == SectionHasLower(section, "soil moisture")
    IN  Flatten(TellingLines(content, Test))

\* the cleanup is left out
OrPlaceholder_skipped(found, placeholder) == found

\* lines 347-355: an empty list or string gets its placeholder
OrPlaceholder(found, placeholder) == IF found = <<>> THEN placeholder ELSE found

\* lines 136-358: the result of generate_weather_and_irrigation_advice for a
\* fetched weather_data
weather_result(crop_name, region, weather_data) ==
    LET content == weather_data["raw_forecast"]
    IN  [crop_name |-> crop_name,
         region |-> region,
         weather_data |->
            [current_conditions |-> current_conditions(content),
             daily_forecast |-> daily_forecast(content),
             agricultural_metrics |->
                [soil_moisture_trend |-> "Unknown", evaporation_rate |-> "Unknown",
                 drought_risk |-> "Unknown", pest_risk |-> "Unknown"]],
         irrigation_schedule |-> irrigation_schedule(content),
         risk_alerts |-> OrPlaceholder(alerts(content),
                            << <<Tok("No specific risk alerts at this time", "")>> >>),
         protective_measures |-> OrPlaceholder(protective_measures(content),
                            << <<Tok("Monitor crop conditions regularly", "")>> >>),
         notes |-> OrPlaceholder(notes(content),
                    <<Tok("Use standard agricultural practices appropriate for the season", "")>>),
         water_conservation_tips |-> OrPlaceholder(conservation_tips(content),
                            << <<Tok("Follow standard water conservation practices", "")>> >>),
         warning |-> "None",
         sources |-> <<"Perplexity Weather Analysis">>]

-----------------------------------------------------------------------------
(* crop_doctor.py *)

\* a str that is the provider's text itself
JText(text) == [t |-> "text", s |-> "", l |-> text]

doctor_required_fields == {"disease_name", "severity", "recommended_treatment"}

\* lines 83-87: the result made up when no JSON is found
doctor_no_json(response_text) ==
    [disease_name |-> JStr("Analysis completed"),
     severity |-> JStr("Unable to determine"),
     recommended_treatment |-> JText(response_text)]

\* lines 64-106: analyze_crop_image from the answer of the vision model on;
\* a ValueError passes the outer handler, which raises it again
analyze_crop_image(resp) ==
    CASE resp.kind = "exception" -> Raised("Exception", ProviderErrorText)
      [] resp.kind = "no_parts" ->
            Raised("ValueError", <<"No", "response", "received", "from", "Gemini">>)
      [] OTHER ->
            IF ~BracesFound(resp.text)
            THEN Returned(doctor_no_json(resp.text))
            ELSE IF ~json_decodes(JsonStr(resp.text))
            THEN Raised("ValueError",
                        <<"Invalid", "JSON", "in", "model", "response:">> \o DecodeErrorText)
            ELSE LET result == json_loads(JsonStr(resp.text))
                 IN  IF \E field \in doctor_required_fields : field \notin DOMAIN result
                     THEN Raised("ValueError",
                                 <<"Missing", "required", "field", "in", "response">>)
                     ELSE Returned(result)

\* lines 36-40: the image cannot be opened
image_open_raises == Raised("UnidentifiedImageError", <<"cannot", "identify", "image", "file">>)

-----------------------------------------------------------------------------
(* api.py *)

NoHttp == [status |-> 0, body |-> [detail |-> <<>>]]
HttpError(status, detail) == [status |-> status, body |-> [detail |-> detail]]
HttpOk(body) == [status |-> 200, body |-> body]

\* lines 125-137: the fields ProfitResponse requires (error is optional)
ProfitResponse_fields ==
    {"crop_name", "region", "estimated_yield", "market_price", "total_cost",
     "expected_revenue", "expected_profit", "risk_factors", "recommendation",
     "notes", "sources"}

\* ProfitResponse(**result) does not raise a validation error
ProfitResponse_ok(result) == ProfitResponse_fields \subseteq DOMAIN result

\* a scheme object that names itself under "name", as SchemeInfo requires, and
\* one that names itself under "scheme_name", as the search prompt asks
SchemeNamed == "scheme{name}"
SchemeSchemeNamed == "scheme{scheme_name}"

\* lines 103-116: SchemeResponse(**result) does not raise a validation error
SchemeResponse_ok(result) ==
    /\ {"matched_schemes", "personalized_recommendation", "next_steps", "sources"}
          \subseteq DOMAIN result
    /\ \A i \in 1..Len(result.matched_schemes) : result.matched_schemes[i] = SchemeNamed

\* lines 85-94: MarketResponse(**result) does not raise a validation error
MarketResponse_ok(result) ==
    /\ {"crop_name", "region", "trend_info", "sources"} \subseteq DOMAIN result
    /\ \A k \in {"recommended_action", "rationale", "notes"} \cap DOMAIN result :
          result[k].t = "str"
    /\ "confidence" \in DOMAIN result => result.confidence.t = "num"
    /\ "alternate_markets" \in DOMAIN result => result.alternate_markets.t = "list"

\* the handlers every endpoint ends with: an HTTPException passes, anything
\* else becomes a 500
endpoint_except(o) ==
    IF o.exc = "HTTPException"
    THEN HttpError(503, o.text)
    ELSE HttpError(500, <<"Internal", "server", "error:">> \o o.text)

ValidationErrorText == <<"validation", "error">>

\* lines 272-277 and 323-328: result.get("error") says "unable to fetch"
says_unable_to_fetch(result) ==
    /\ Get(result, "error", NoError) # NoError
    /\ Contains(lower(result.error), UnableToFetch)

\* lines 320-338 of crop_profit_endpoint, after predict_crop_profit
crop_profit_respond(o) ==
    IF o.kind = "raised" THEN endpoint_except(o)
    ELSE IF says_unable_to_fetch(o.value) THEN HttpError(503, o.value.error)
    ELSE IF ProfitResponse_ok(o.value) THEN HttpOk(o.value)
    ELSE endpoint_except(Raised("ValidationError", ValidationErrorText))

\* lines 269-287 of govt_schemes_endpoint, after analyze_schemes
govt_schemes_respond(o) ==
    IF o.kind = "raised" THEN endpoint_except(o)
    ELSE IF says_unable_to_fetch(o.value) THEN HttpError(503, o.value.error)
    ELSE IF SchemeResponse_ok(o.value) THEN HttpOk(o.value)
    ELSE endpoint_except(Raised("ValidationError", ValidationErrorText))

\* lines 160-169 of smart_market_endpoint, after analyze_market
smart_market_respond(o) ==
    IF o.kind = "raised" THEN endpoint_except(o)
    ELSE IF MarketResponse_ok(o.value) THEN HttpOk(o.value)
    ELSE endpoint_except(Raised("ValidationError", ValidationErrorText))

\* lines 144-153 of weather_irrigation_endpoint, after the orchestrator
weather_irrigation_respond(o) ==
    IF o.kind = "raised" THEN endpoint_except(o)
    ELSE HttpOk(o.value)

\* lines 36-40: CropDiagnosisResponse(**result) does not raise a validation error
CropDiagnosisResponse_ok(result) ==
    /\ doctor_required_fields \subseteq DOMAIN result
    /\ \A field \in doctor_required_fields : result[field].t \in {"str", "text"}

\* lines 205-229 of crop_doctor_endpoint, after analyze_crop_image
crop_doctor_respond(o) ==
    IF o.kind = "raised" THEN endpoint_except(o)
    ELSE IF \E field \in doctor_required_fields : field \notin DOMAIN o.value
    THEN HttpError(500, <<"Missing", "required", "field">>)
    ELSE IF CropDiagnosisResponse_ok(o.value) THEN HttpOk(o.value)
    ELSE endpoint_except(Raised("ValidationError", ValidationErrorText))

Respond(c, o) ==
    CASE c = "doctor" -> crop_doctor_respond(o)
      [] c = "profit" -> crop_profit_respond(o)
      [] c = "schemes" -> govt_schemes_respond(o)
      [] c = "market" -> smart_market_respond(o)
      [] c = "weather" -> weather_irrigation_respond(o)

\* the request models, lines 96-101 and 118-123: every field is required
SchemeRequest_fields == {"farmer_name", "region", "crop", "farm_size", "need"}
ProfitRequest_fields == {"region", "crop", "farm_size", "expected_yield", "cost_factors"}

\* the body does not validate against the request model: the framework
\* answers 422 and the endpoint function is not entered
lacks_field(request, fields) == DOMAIN request # fields

FieldRequired == <<"Field", "required">>

\* the endpoint lets every request through
missing_field_unchecked(request) == FALSE

\* lines 251-257 and 302-308: some required field of the request is empty
missing_field(request) == \E field \in DOMAIN request : request[field] = ""

-----------------------------------------------------------------------------
(* The inputs a request and the providers can bring *)

Absent == "<absent>"

\* a dict holding the keys whose value is present
Dict(pairs) == [k \in {q \in DOMAIN pairs : pairs[q] # Absent} |-> pairs[k]]

EmptyInput == [k \in {} |-> ""]

YieldLiterals == {ToString(n) : n \in YieldNumbers} \cup {HalfLiteral, NotANumber}
CostLiterals == {ToString(n) : n \in CostNumbers}

\* user_input dicts handed to predict_crop_profit by a direct caller
DirectProfitInputs ==
    {Dict([crop_name |-> c, expected_yield |-> y, total_cost |-> t]) :
        c \in {Absent, "wheat", "Sugarcane"},
        y \in {Absent} \cup YieldLiterals,
        t \in {Absent} \cup CostLiterals}

\* bodies of POST /crop-profit (every field a string, as ProfitRequest demands)
ProfitRequests ==
    [region : {"", "Punjab"}, crop : {"", "wheat"}, farm_size : {"", "2 acres"},
     expected_yield : {"", "100", NotANumber}, cost_factors : {"", "50000"}]

\* bodies that leave a required field out
ProfitBodies ==
    ProfitRequests \cup
    {[region |-> "Punjab", crop |-> "wheat", farm_size |-> "2 acres", expected_yield |-> "100"],
     [crop |-> "wheat", farm_size |-> "", expected_yield |-> "100", cost_factors |-> "50000"]}

RefineResponses ==
    {Generated("text", <<W>>), Generated("text", <<>>), Generated("exception", <<>>)}

TransportAnswers ==
    {Answer("request_error", <<>>), Answer("http_error", <<>>), Answer("no_choices", <<>>)}

\* texts every consumer of provider text may meet: no brace at all, an opening
\* brace alone, a closing brace alone, a closing brace before the opening one,
\* braces around text that is not JSON, and the empty object
CommonTexts ==
    {<<>>, <<W>>, <<W, LB, W>>, <<W, RB>>, <<RB, W, LB>>, Braced(<<Garbage>>), Braced(<<>>)}

ProfitSections ==
    <<M("market_data", JObj), M("input_costs", JObj), M("yield_data", JObj),
      M("risk_factors", JList(<<"Unseasonal rain">>))>>

ProfitContents ==
    CommonTexts \cup
    {<<W>> \o Braced(ProfitSections) \o <<W>>,
     Braced(SubSeq(ProfitSections, 1, 3)),
     Braced(SubSeq(ProfitSections, 2, 4))}

ProfitAnswers == TransportAnswers \cup {Answer("content", t) : t \in ProfitContents}

ProfitExpansion ==
    <<M("crop_name", JStr("wheat")), M("region", JStr("Punjab")),
      M("estimated_yield", JStr("100 quintals")), M("market_price", JStr("2200")),
      M("total_cost", JStr("50000")), M("expected_revenue", JStr("220000")),
      M("expected_profit", JStr("170000")), M("recommendation", JStr("Proceed")),
      M("notes", JStr("Sell early")), M("risk_factors", JList(<<"Price volatility">>))>>

ProfitExpandTexts ==
    CommonTexts \cup
    {<<W>> \o Braced(ProfitExpansion) \o <<W>>,
     Braced(SubSeq(ProfitExpansion, 1, 9)),
     Braced(SubSeq(ProfitExpansion, 2, 10)),
     Braced(SubSeq(ProfitExpansion, 1, 9) \o <<M("risk_factors", JStr("rain"))>>),
     Braced(SubSeq(ProfitExpansion, 1, 9) \o <<M("risk_factors", JList(<<>>))>>),
     Braced(ProfitExpansion \o <<M("estimated_revenue", JStr("220000"))>>),
     Braced(ProfitExpansion \o <<M("sources", JList(<<>>))>>),
     Braced(ProfitExpansion \o <<M("sources", JList(<<"gemini", "perplexity">>))>>),
     Braced(ProfitExpansion \o <<M("sources", JStr("web"))>>)}

ProfitExpandResponses ==
    {Generated("exception", <<>>)} \cup {Generated("text", t) : t \in ProfitExpandTexts}

\* bodies of POST /govt-schemes (every field a string, as SchemeRequest demands)
SchemeRequests ==
    [farmer_name : {"", "Asha"}, region : {"", "Punjab"}, crop : {"", "wheat"},
     farm_size : {"", "2 acres"}, need : {"", "irrigation subsidy"}]

\* bodies that leave a required field out
SchemeBodies ==
    SchemeRequests \cup
    {[farmer_name |-> "Asha", region |-> "Punjab", crop |-> "wheat", farm_size |-> "2 acres"],
     [region |-> "Punjab", crop |-> "", farm_size |-> "2 acres", need |-> "loan"]}

SchemeContents ==
    CommonTexts \cup
    {<<W>> \o Braced(<<M("schemes", JList(<<SchemeSchemeNamed, SchemeSchemeNamed>>)),
                       M("source", JStr("gov"))>>) \o <<W>>,
     Braced(<<M("schemes", JList(<<SchemeNamed>>))>>),
     Braced(<<M("schemes", JList(<<>>))>>),
     Braced(<<M("schemes", JStr("PM-KISAN"))>>),
     Braced(<<M("source", JStr("gov"))>>)}

SchemeAnswers == TransportAnswers \cup {Answer("content", t) : t \in SchemeContents}

SchemeExpansion ==
    <<M("personalized_recommendation", JStr("Apply to PM-KISAN")),
      M("next_steps", JStr("Visit the portal")),
      M("matched_schemes", JList(<<SchemeNamed>>))>>

SchemeExpandTexts ==
    CommonTexts \cup
    {<<W>> \o Braced(SchemeExpansion) \o <<W>>,
     Braced(SubSeq(SchemeExpansion, 1, 2)),
     Braced(SubSeq(SchemeExpansion, 2, 3)),
     Braced(SubSeq(SchemeExpansion, 1, 2) \o <<M("matched_schemes", JList(<<>>))>>),
     Braced(SubSeq(SchemeExpansion, 1, 2) \o <<M("matched_schemes", JStr("PM-KISAN"))>>),
     Braced(SubSeq(SchemeExpansion, 1, 2) \o <<M("matched_schemes", JList(<<SchemeSchemeNamed>>))>>)}

SchemeExpandResponses ==
    {Generated("exception", <<>>)} \cup {Generated("text", t) : t \in SchemeExpandTexts}

\* bodies of POST /smart-market and POST /weather-irrigation
CropRegionRequests == [crop_name : {"", "wheat"}, region : {"", "Punjab"}]

MarketContents ==
    CommonTexts \cup
    {<<W>> \o Braced(<<M("current_price_range", JStr("2000-2400")),
                       M("trend_direction", JStr("stable"))>>) \o <<W>>,
     Braced(<<M("trend_direction", JStr("increasing"))>>),
     <<W>> \o Braced(<<M("trend_direction", JStr("falling"))>>) \o <<W, RB, W>>,
     <<W, LB, W>> \o Braced(<<M("trend_direction", JStr("falling"))>>),
     <<W>> \o Braced(<<M("price_trend", JObj), M("markets", JList(<<"Ludhiana">>))>>)}

MarketAnswers == TransportAnswers \cup {Answer("content", t) : t \in MarketContents}

MarketAdvice ==
    <<M("recommended_action", JStr("hold")), M("rationale", JStr("prices are stable")),
      M("alternate_markets", JList(<<"Ludhiana">>)), M("notes", JStr("store dry")),
      M("confidence", JNum("0.8"))>>

MarketAdviceTexts ==
    CommonTexts \cup
    {<<W>> \o Braced(MarketAdvice \o <<M("price_forecast", JStr("flat"))>>) \o <<W>>,
     Braced(MarketAdvice),
     Braced(SubSeq(MarketAdvice, 1, 4)),
     Braced(SubSeq(MarketAdvice, 2, 5)),
     Braced(SubSeq(MarketAdvice, 1, 4) \o <<M("confidence", JStr("high"))>>),
     Braced(SubSeq(MarketAdvice, 1, 2) \o <<M("alternate_markets", JStr("Ludhiana"))>>
            \o SubSeq(MarketAdvice, 4, 5))}

MarketAdviceResponses ==
    {Generated("exception", <<>>)} \cup {Generated("text", t) : t \in MarketAdviceTexts}

\* uploads to POST /crop-doctor: the declared content type, how saving the
\* upload to the temporary file goes, and whether PIL can open what was saved
ImageTypes == {"image/jpeg", "image/png"}
Uploads ==
    [content_type : ImageTypes \cup {"text/plain", "application/pdf"},
     save : {"ok", "open_fails", "copy_fails"},
     readable : BOOLEAN]

Diagnosis ==
    <<M("disease_name", JStr("Leaf rust")), M("severity", JStr("Medium")),
      M("recommended_treatment", JStr("Apply fungicide"))>>

DoctorTexts ==
    CommonTexts \cup
    {<<W>> \o Braced(Diagnosis) \o <<W>>,
     Braced(Diagnosis \o <<M("confidence", JNum("0.9"))>>),
     Braced(SubSeq(Diagnosis, 1, 2)),
     Braced(SubSeq(Diagnosis, 2, 3)),
     Braced(SubSeq(Diagnosis, 1, 2) \o
            <<M("recommended_treatment", JList(<<"Apply fungicide", "Remove leaves">>))>>)}

\* answers of the vision model: an exception, a response without parts, a text
DoctorResponses ==
    {Generated("exception", <<>>), Generated("no_parts", <<>>)} \cup
    {Generated("text", t) : t \in DoctorTexts}

\* Lines of a forecast text
ConditionsHeading == <<Tok("Current conditions", ":")>>
TemperatureAndHumidity ==
    <<Dash, Tok("Temperature", ":"), Tok("31°C", ";"), Tok("Humidity", ":"), Tok("60%", "")>>
HumidityAndWind ==
    <<Dash, Tok("Humidity", ":"), Tok("60%", ";"), Tok("Wind", ":"), Tok("12 km/h", "")>>
TemperatureLine == <<Dash, Tok("Temperature", ":"), Tok("31°C", "")>>
HumidityLine == <<Dash, Tok("Humidity", ":"), Tok("60%", "")>>
WindLine == <<Dash, Tok("Wind", ":"), Tok("12 km/h", "")>>
RainfallLine == <<Dash, Tok("Rainfall", ":"), Tok("2 mm", "")>>
RainfallLast24h == <<Dash, Tok("Rainfall", ""), Tok("last 24h", ":"), Tok("2 mm", "")>>

ForecastSection ==
    <<<<Tok("7-day forecast", ":")>>,
      <<Dash, Tok("Mon", ":"), Tok("sunny", "")>>,
      <<Dash, Tok("Tue", ""), Tok("rain", "")>>,
      <<Dash, Tok("later", ":"), Tok("dry", "")>>>>

IrrigationSection ==
    <<<<Tok("Irrigation", ":")>>,
      <<Dash, Tok("Irrigate", ""), Tok("at dawn", "")>>,
      <<Star, Tok("Skip", ""), Tok("Tue", "")>>,
      <<Tok("Check", ""), Tok("the pump", "")>>,
      <<Dash>>>>

AlertsSection ==
    <<<<Tok("Alerts", ":")>>,
      <<Dash, Tok("Heat warning", ""), Tok("on Mon", "")>>,
      <<Tok("Note", ":"), Tok("data is regional", "")>>>>

GuidanceSection ==
    <<<<Tok("Practical guidance", ":")>>,
      <<Dash, Tok("Conserve", ""), Tok("mulch", "")>>,
      <<Dash, Tok("Spray", ""), Tok("neem", "")>>>>

SoilSection ==
    <<<<Tok("Soil moisture", ":")>>,
      <<Tok("Topsoil", ""), Tok("is dry", "")>>,
      <<Tok("Subsoil", ""), Tok("is moist", "")>>>>

\* headings alone, and headings in another letter case
BareHeadings == <<<<Tok("Alerts", ":")>>, <<Tok("Practical guidance", ":")>>>>
UpperCaseConditions == <<<<Tok("CURRENT CONDITIONS", ":")>>, TemperatureLine>>
TitleCaseForecast == <<<<Tok("7-Day Forecast", ":")>>, <<Dash, Tok("Mon", ":"), Tok("sunny", "")>>>>

OutlookSection == << <<Tok("Outlook", "")>> >>

\* the forecast texts the search provider can write, the empty text among them
WeatherContents ==
    {<<>>,
     << <<ConditionsHeading, TemperatureAndHumidity>> >>,
     << <<ConditionsHeading, HumidityAndWind, RainfallLine>> >>,
     << OutlookSection,
        <<ConditionsHeading, TemperatureLine, HumidityLine, WindLine, RainfallLast24h>>,
        ForecastSection, IrrigationSection >>,
     << <<ConditionsHeading, TemperatureLine, HumidityLine>>, AlertsSection, GuidanceSection,
        SoilSection >>,
     << <<TemperatureLine, HumidityLine>>, BareHeadings >>,
     << OutlookSection, UpperCaseConditions, TitleCaseForecast >>,
     << SoilSection, AlertsSection >>,
     << <<ConditionsHeading, WindLine>>, ForecastSection, GuidanceSection >>}

WeatherAnswers == TransportAnswers \cup {Answer("content", t) : t \in WeatherContents}

-----------------------------------------------------------------------------
(* The state machine *)

NoFetch == [kind |-> "pending", doc |-> EmptyDoc]
NoCalls == [refine |-> 0, fetch |-> 0, expand |-> 0, vision |-> 0]
NoReply == Answer("none", <<>>)

\* the concurrent requests; the coroutine of one stands at idle, refine, fetch,
\* sleep, expand or done, in pass `attempt` of the retry loop, and the provider
\* call or timer it waits for is outstanding, answered, or there is none
Tasks == 1..NumTasks
IdleTask == [at |-> "idle", attempt |-> 0, io |-> "none"]

Init ==
    /\ cap = "none"
    /\ entry = "none"
    /\ pc = "idle"
    /\ user_input = EmptyInput
    /\ attempt = 0
    /\ fetchLog = <<>>
    /\ sleeps = <<>>
    /\ calls = NoCalls
    /\ fetched = NoFetch
    /\ expanded = NoFetch
    /\ reply = NoReply
    /\ tmp_file = "absent"
    /\ orch = Pending(EmptyDoc)
    /\ http = NoHttp
    /\ tasks = [t \in Tasks |-> IdleTask]
    /\ thread = 0

\* the orchestrator is over: its caller, the endpoint when there is one, answers
Finish(c, e, o) ==
    /\ pc' = "done"
    /\ orch' = o
    /\ http' = IF e = "api" THEN Respond(c, o) ELSE NoHttp

\* a request the endpoint rejects before it calls the orchestrator
Reject(request, status, detail) ==
    /\ pc' = "done"
    /\ user_input' = request
    /\ http' = HttpError(status, detail)
    /\ UNCHANGED orch

\* the bookkeeping of one pass of a retry loop
FetchPass(step) ==
    /\ calls' = [calls EXCEPT !.fetch = @ + 1]
    /\ fetchLog' = Append(fetchLog, step.why)
    /\ sleeps' = IF step.ctl = "sleep" THEN Append(sleeps, 2 ^ attempt) ELSE sleeps
    /\ attempt' = IF step.ctl = "continue" THEN attempt + 1 ELSE attempt

\* lines 212-214: asyncio.sleep(2 ** attempt) is over, the loop goes on
Backoff ==
    /\ UNCHANGED <<tasks, thread>>
    /\ pc = "sleep"
    /\ pc' = "fetch"
    /\ attempt' = attempt + 1
    /\ UNCHANGED <<cap, entry, user_input, fetchLog, sleeps, calls, fetched, expanded, reply, tmp_file,
                 orch, http>>

\* the request is over, the next one may come
NextRequest ==
    /\ UNCHANGED <<tasks, thread>>
    /\ pc = "done"
    /\ cap' = "none"
    /\ entry' = "none"
    /\ pc' = "idle"
    /\ user_input' = EmptyInput
    /\ attempt' = 0
    /\ fetchLog' = <<>>
    /\ sleeps' = <<>>
    /\ calls' = NoCalls
    /\ fetched' = NoFetch
    /\ expanded' = NoFetch
    /\ reply' = NoReply
    /\ tmp_file' = "absent"
    /\ orch' = Pending(EmptyDoc)
    /\ http' = NoHttp

-----------------------------------------------------------------------------
(* /crop-profit *)

\* predict_crop_profit, lines 321-348, up to the call of the refiner
predict_crop_profit_begin(ui, e) ==
    /\ user_input' = ui
    /\ IF FiguresParse(ui, {"land_area", "expected_yield", "total_cost"})
       THEN /\ pc' = "refine"
            /\ orch' = Pending([ProfitDefaults EXCEPT !.market_price_range =
                                    get_market_price_range(Get(ui, "crop_name", "Unknown"))])
            /\ http' = NoHttp
       ELSE Finish("profit", e, predict_crop_profit_caught(ProfitDefaults, ui))

\* POST /crop-profit, lines 300-320
crop_profit_endpoint(request) ==
    /\ UNCHANGED <<tasks, thread>>
    /\ pc = "idle"
    /\ cap' = "profit"
    /\ entry' = "api"
    /\ IF lacks_field(request, ProfitRequest_fields)
       THEN Reject(request, 422, FieldRequired)
       ELSE IF missing_field(request)
       THEN Reject(request, 400, <<"Missing", "required", "field">>)
       ELSE predict_crop_profit_begin(request, "api")
    /\ UNCHANGED <<attempt, fetchLog, sleeps, calls, fetched, expanded, reply, tmp_file>>

\* predict_crop_profit called with a user_input of the caller's making
predict_crop_profit(ui) ==
    /\ UNCHANGED <<tasks, thread>>
    /\ pc = "idle"
    /\ cap' = "profit"
    /\ entry' = "direct"
    /\ predict_crop_profit_begin(ui, "direct")
    /\ UNCHANGED <<attempt, fetchLog, sleeps, calls, fetched, expanded, reply, tmp_file>>

\* line 348: the refiner answers
profit_refined(resp) ==
    /\ UNCHANGED <<tasks, thread>>
    /\ reply' = resp
    /\ UNCHANGED tmp_file
    /\ pc = "refine"
    /\ cap = "profit"
    /\ calls' = [calls EXCEPT !.refine = @ + 1]
    /\ IF profit_refine_ok(resp)
       THEN /\ pc' = "fetch"
            /\ UNCHANGED <<orch, http>>
       ELSE Finish("profit", entry, predict_crop_profit_caught(orch.value, user_input))
    /\ UNCHANGED <<cap, entry, user_input, attempt, fetchLog, sleeps, fetched, expanded>>

\* lines 351-370: the search provider answers one attempt of the fetcher
profit_fetched(resp) ==
    /\ UNCHANGED <<tasks, thread>>
    /\ reply' = resp
    /\ UNCHANGED tmp_file
    /\ pc = "fetch"
    /\ cap = "profit"
    /\ attempt < max_retries
    /\ LET step == query_perplexity_for_profit_data(attempt, resp)
       IN  /\ FetchPass(step)
           /\ CASE step.ctl = "sleep" ->
                      /\ pc' = "sleep"
                      /\ UNCHANGED <<fetched, orch, http>>
                [] step.ctl = "raise" ->
                      /\ fetched' = [kind |-> "raised", doc |-> EmptyDoc]
                      /\ Finish("profit", entry, predict_crop_profit_caught(orch.value, user_input))
                [] step.ctl = "none" ->
                      /\ fetched' = [kind |-> "none", doc |-> EmptyDoc]
                      /\ Finish("profit", entry, Returned(profit_no_data(orch.value, user_input)))
                [] step.ctl = "return" ->
                      /\ fetched' = [kind |-> "doc", doc |-> step.doc]
                      /\ IF Truthy(step.doc)
                         THEN /\ pc' = "expand"
                              /\ orch' = Pending([orch.value EXCEPT !.sources = Append(@, "perplexity")])
                              /\ http' = NoHttp
                         ELSE Finish("profit", entry, Returned(profit_no_data(orch.value, user_input)))
    /\ UNCHANGED <<cap, entry, user_input, expanded>>

\* lines 373-400: the expander answers
profit_expanded_answer(resp) ==
    /\ UNCHANGED <<tasks, thread>>
    /\ reply' = resp
    /\ UNCHANGED tmp_file
    /\ pc = "expand"
    /\ cap = "profit"
    /\ calls' = [calls EXCEPT !.expand = @ + 1]
    /\ LET expanded_data == expand_profit_prediction_with_gemini(resp)
       IN  /\ expanded' = expanded_data
           /\ IF expanded_data.kind = "doc"
              THEN IF profit_append_raises(expanded_data.doc)
                   THEN Finish("profit", entry,
                            predict_crop_profit_caught(profit_overwrite(orch.value, expanded_data.doc),
                                                       user_input))
                   ELSE Finish("profit", entry, Returned(profit_expanded(orch.value, expanded_data.doc)))
              ELSE Finish("profit", entry, Returned(profit_expand_none(orch.value, user_input)))
    /\ UNCHANGED <<cap, entry, user_input, attempt, fetchLog, sleeps, fetched>>

-----------------------------------------------------------------------------
(* /govt-schemes *)

\* POST /govt-schemes, lines 249-269, and analyze_schemes up to the refiner
govt_schemes_endpoint(request) ==
    /\ UNCHANGED <<tasks, thread>>
    /\ pc = "idle"
    /\ cap' = "schemes"
    /\ entry' = "api"
    /\ IF lacks_field(request, SchemeRequest_fields)
       THEN Reject(request, 422, FieldRequired)
       ELSE IF missing_field(request)
       THEN Reject(request, 400, <<"Missing", "required", "field">>)
       ELSE /\ user_input' = request
            /\ pc' = "refine"
            /\ orch' = Pending(SchemeDefaults)
            /\ http' = NoHttp
    /\ UNCHANGED <<attempt, fetchLog, sleeps, calls, fetched, expanded, reply, tmp_file>>

\* line 295: the refiner answers
scheme_refined(resp) ==
    /\ UNCHANGED <<tasks, thread>>
    /\ reply' = resp
    /\ UNCHANGED tmp_file
    /\ pc = "refine"
    /\ cap = "schemes"
    /\ calls' = [calls EXCEPT !.refine = @ + 1]
    /\ IF scheme_refine_ok(resp)
       THEN /\ pc' = "fetch"
            /\ UNCHANGED <<orch, http>>
       ELSE Finish("schemes", entry,
                Returned(scheme_except(orch.value, "SchemeAdvisorError", scheme_refine_error(resp))))
    /\ UNCHANGED <<cap, entry, user_input, attempt, fetchLog, sleeps, fetched, expanded>>

\* lines 298-304: the search provider answers one attempt of the fetcher
scheme_fetched(resp) ==
    /\ UNCHANGED <<tasks, thread>>
    /\ reply' = resp
    /\ UNCHANGED tmp_file
    /\ pc = "fetch"
    /\ cap = "schemes"
    /\ attempt < max_retries
    /\ LET step == query_perplexity_for_schemes(attempt, resp)
       IN  /\ FetchPass(step)
           /\ CASE step.ctl = "sleep" ->
                      /\ pc' = "sleep"
                      /\ UNCHANGED <<fetched, orch, http>>
                [] step.ctl = "continue" ->
                      /\ pc' = "fetch"
                      /\ UNCHANGED <<fetched, orch, http>>
                [] step.ctl = "raise" ->
                      /\ fetched' = [kind |-> "raised", doc |-> EmptyDoc]
                      /\ Finish("schemes", entry,
                            Returned(scheme_except(orch.value, step.exc, step.text)))
                [] step.ctl = "none" ->
                      /\ fetched' = [kind |-> "none", doc |-> EmptyDoc]
                      /\ Finish("schemes", entry, Returned(scheme_no_data(orch.value)))
                [] step.ctl = "return" ->
                      /\ fetched' = [kind |-> "doc", doc |-> step.doc]
                      /\ pc' = "expand"
                      /\ orch' = Pending([orch.value EXCEPT !.sources = Append(@, "perplexity")])
                      /\ http' = NoHttp
    /\ UNCHANGED <<cap, entry, user_input, expanded>>

\* lines 307-321: the expander answers
scheme_expanded_answer(resp) ==
    /\ UNCHANGED <<tasks, thread>>
    /\ reply' = resp
    /\ UNCHANGED tmp_file
    /\ pc = "expand"
    /\ cap = "schemes"
    /\ calls' = [calls EXCEPT !.expand = @ + 1]
    /\ LET expanded_data == expand_scheme_info_with_gemini(resp)
       IN  /\ expanded' = expanded_data
           /\ IF expanded_data.kind = "doc"
              THEN Finish("schemes", entry, Returned(scheme_expanded(orch.value, expanded_data.doc)))
              ELSE Finish("schemes", entry, Returned(scheme_expand_none(orch.value, fetched.doc)))
    /\ UNCHANGED <<cap, entry, user_input, attempt, fetchLog, sleeps, fetched>>

-----------------------------------------------------------------------------
(* /smart-market *)

\* POST /smart-market, lines 160-161, and analyze_market up to the fetcher
smart_market_endpoint(request) ==
    /\ UNCHANGED <<tasks, thread>>
    /\ pc = "idle"
    /\ cap' = "market"
    /\ entry' = "api"
    /\ user_input' = request
    /\ pc' = "fetch"
    /\ UNCHANGED <<attempt, fetchLog, sleeps, calls, fetched, expanded, reply, tmp_file, orch, http>>

MarketUnavailable ==
    <<"Unable", "to", "fetch", "price", "trend", "data.", "Service", "temporarily", "unavailable.">>

\* advisor.py lines 168-174: the search provider answers the single attempt
market_fetched(resp) ==
    /\ UNCHANGED <<tasks, thread>>
    /\ reply' = resp
    /\ UNCHANGED tmp_file
    /\ pc = "fetch"
    /\ cap = "market"
    /\ LET step == query_perplexity_for_price_trends(resp)
       IN  /\ FetchPass(step)
           /\ CASE step.ctl = "raise" ->
                      /\ fetched' = [kind |-> "raised", doc |-> EmptyDoc]
                      /\ Finish("market", entry, Raised(step.exc, step.text))
                [] step.ctl = "none" ->
                      /\ fetched' = [kind |-> "none", doc |-> EmptyDoc]
                      /\ Finish("market", entry, Raised("HTTPException", MarketUnavailable))
                [] step.ctl = "return" ->
                      /\ fetched' = [kind |-> "doc", doc |-> step.doc]
                      /\ IF Truthy(step.doc)
                         THEN /\ pc' = "expand"
                              /\ UNCHANGED <<orch, http>>
                         ELSE Finish("market", entry, Raised("HTTPException", MarketUnavailable))
    /\ UNCHANGED <<cap, entry, user_input, expanded>>

\* advisor.py lines 177-198: the advice model answers
market_advised(resp) ==
    /\ UNCHANGED <<tasks, thread>>
    /\ reply' = resp
    /\ UNCHANGED tmp_file
    /\ pc = "expand"
    /\ cap = "market"
    /\ calls' = [calls EXCEPT !.expand = @ + 1]
    /\ LET advice == ask_gemini_for_advice(resp)
           response == market_response(user_input.crop_name, user_input.region, fetched.doc)
       IN  /\ expanded' = advice
           /\ IF advice.kind = "doc"
              THEN Finish("market", entry, Returned(market_with_advice(response, advice.doc)))
              ELSE Finish("market", entry, Returned(response))
    /\ UNCHANGED <<cap, entry, user_input, attempt, fetchLog, sleeps, fetched>>

-----------------------------------------------------------------------------
(* /weather-irrigation *)

\* POST /weather-irrigation, lines 144-145, up to the fetcher
weather_irrigation_endpoint(request) ==
    /\ UNCHANGED <<tasks, thread>>
    /\ pc = "idle"
    /\ cap' = "weather"
    /\ entry' = "api"
    /\ user_input' = request
    /\ pc' = "fetch"
    /\ UNCHANGED <<attempt, fetchLog, sleeps, calls, fetched, expanded, reply, tmp_file, orch, http>>

WeatherUnavailable ==
    <<"Unable", "to", "fetch", "weather", "data.", "Please", "try", "again", "later.">>

\* weather_irrigation.py lines 129-133 and on: the search provider answers one
\* attempt of the fetcher
weather_fetched(resp) ==
    /\ UNCHANGED <<tasks, thread>>
    /\ reply' = resp
    /\ UNCHANGED tmp_file
    /\ pc = "fetch"
    /\ cap = "weather"
    /\ attempt < max_retries
    /\ LET step == query_perplexity_for_weather(attempt, resp)
       IN  /\ FetchPass(step)
           /\ CASE step.ctl = "sleep" ->
                      /\ pc' = "sleep"
                      /\ UNCHANGED <<fetched, orch, http>>
                [] step.ctl = "none" ->
                      /\ fetched' = [kind |-> "none", doc |-> EmptyDoc]
                      /\ Finish("weather", entry, Raised("WeatherIrrigationError", WeatherUnavailable))
                [] step.ctl = "return" ->
                      /\ fetched' = [kind |-> "doc", doc |-> step.doc]
                      /\ Finish("weather", entry,
                            Returned(weather_result(user_input.crop_name, user_input.region, step.doc)))
    /\ UNCHANGED <<cap, entry, user_input, expanded>>

-----------------------------------------------------------------------------
(* /crop-doctor *)

\* the endpoint takes every upload for an image
invalid_file_type_unchecked(upload) == FALSE

\* line 183
invalid_file_type(upload) == upload.content_type \notin ImageTypes

InvalidFileType ==
    <<"Invalid", "file", "type.", "Only", "JPEG", "and", "PNG", "images", "are", "supported.">>

\* the temporary file is left where it is
cleanup_skipped(file) == file

\* api.py lines 231-236, the finally clause: the temporary file is removed
\* when it exists
cleanup(file) == IF file = "written" THEN "removed" ELSE file

\* POST /crop-doctor, lines 183-203, up to the call of the vision model, and
\* lines 223-236 when that call is never reached
crop_doctor_endpoint(upload) ==
    /\ UNCHANGED <<tasks, thread>>
    /\ pc = "idle"
    /\ cap' = "doctor"
    /\ entry' = "api"
    /\ user_input' = upload
    /\ CASE invalid_file_type(upload) ->
              /\ pc' = "done"
              /\ http' = HttpError(422, InvalidFileType)
              /\ UNCHANGED <<orch, tmp_file>>
         [] ~invalid_file_type(upload) /\ upload.save = "open_fails" ->
              /\ pc' = "done"
              /\ http' = endpoint_except(Raised("OSError", <<"No", "space", "left">>))
              /\ UNCHANGED <<orch, tmp_file>>
         [] ~invalid_file_type(upload) /\ upload.save = "copy_fails" ->
              /\ pc' = "done"
              /\ http' = endpoint_except(Raised("OSError", <<"No", "space", "left">>))
              /\ tmp_file' = cleanup("written")
              /\ UNCHANGED orch
         [] ~invalid_file_type(upload) /\ upload.save = "ok" /\ ~upload.readable ->
              /\ Finish("doctor", "api", image_open_raises)
              /\ tmp_file' = cleanup("written")
         [] OTHER ->
              /\ pc' = "vision"
              /\ tmp_file' = "written"
              /\ UNCHANGED <<orch, http>>
    /\ UNCHANGED <<attempt, fetchLog, sleeps, calls, fetched, expanded, reply>>

\* crop_doctor.py line 64 on, then api.py lines 205-236: the vision model
\* answers, the endpoint answers and removes the temporary file
crop_image_analyzed(resp) ==
    /\ UNCHANGED <<tasks, thread>>
    /\ pc = "vision"
    /\ cap = "doctor"
    /\ reply' = resp
    /\ calls' = [calls EXCEPT !.vision = @ + 1]
    /\ Finish("doctor", entry, analyze_crop_image(resp))
    /\ tmp_file' = cleanup("written")
    /\ UNCHANGED <<cap, entry, user_input, attempt, fetchLog, sleeps, fetched, expanded>>

-----------------------------------------------------------------------------

Next ==
    \/ \E upload \in Uploads : crop_doctor_endpoint(upload)
    \/ \E resp \in DoctorResponses : crop_image_analyzed(resp)
    \/ \E request \in ProfitBodies : crop_profit_endpoint(request)
    \/ \E ui \in DirectProfitInputs : predict_crop_profit(ui)
    \/ \E resp \in RefineResponses : profit_refined(resp)
    \/ \E resp \in ProfitAnswers : profit_fetched(resp)
    \/ \E resp \in ProfitExpandResponses : profit_expanded_answer(resp)
    \/ \E request \in SchemeBodies : govt_schemes_endpoint(request)
    \/ \E resp \in RefineResponses : scheme_refined(resp)
    \/ \E resp \in SchemeAnswers : scheme_fetched(resp)
    \/ \E resp \in SchemeExpandResponses : scheme_expanded_answer(resp)
    \/ \E request \in CropRegionRequests : smart_market_endpoint(request)
    \/ \E resp \in MarketAnswers : market_fetched(resp)
    \/ \E resp \in MarketAdviceResponses : market_advised(resp)
    \/ \E request \in CropRegionRequests : weather_irrigation_endpoint(request)
    \/ \E resp \in WeatherAnswers : weather_fetched(resp)
    \/ Backoff
    \/ NextRequest

Spec == Init /\ [][Next]_vars

-----------------------------------------------------------------------------
(* The event loop: concurrent requests of /crop-profit and /govt-schemes *)

\* The endpoints and the functions they await are coroutines of one event
\* loop, which has one thread. A coroutine keeps the thread until it awaits
\* something that is not ready (client.post, asyncio.sleep) or ends; a call
\* that is not awaited (generate_content) returns only when the provider
\* has answered, and the coroutine keeps the thread meanwhile.

\* profit_prediction.py line 87 and 269, scheme_advisor.py line 64 and 233:
\* model.generate_content(prompt) is called, not awaited
thread_after_call(t) == t

\* profit_prediction.py lines 171 and 214, scheme_advisor.py lines 139 and 180:
\* await client.post(...) and await asyncio.sleep(...) suspend the coroutine
thread_after_await(t) == 0

At(t, at, io) == tasks[t].at = at /\ tasks[t].io = io

\* api.py lines 289-320 and profit_prediction.py lines 321-348, 60-87: the
\* loop starts the endpoint of a new request, which runs up to the
\* refinement call
endpoint_starts(t) ==
    /\ thread = 0
    /\ At(t, "idle", "none")
    /\ tasks' = [tasks EXCEPT ![t] = [at |-> "refine", attempt |-> 0, io |-> "outstanding"]]
    /\ thread' = thread_after_call(t)
    /\ UNCHANGED request_vars

\* a provider answers the call of a request, or the timer of its sleep fires
provider_answers(t) ==
    /\ tasks[t].io = "outstanding"
    /\ tasks' = [tasks EXCEPT ![t].io = "answered"]
    /\ UNCHANGED <<thread, request_vars>>

\* profit_prediction.py lines 87-101, 348-351, 168-176: generate_content
\* returns; with a query the coroutine goes on to the first client.post and is
\* suspended there, without one the request ends
refine_returns(t, ok) ==
    /\ thread = t
    /\ At(t, "refine", "answered")
    /\ tasks' = [tasks EXCEPT ![t] =
                    IF ok THEN [at |-> "fetch", attempt |-> 0, io |-> "outstanding"]
                    ELSE [at |-> "done", attempt |-> 0, io |-> "none"]]
    /\ thread' = IF ok THEN thread_after_await(t) ELSE 0
    /\ UNCHANGED request_vars

\* profit_prediction.py lines 171-214, 351-373, 269: the loop resumes the
\* coroutine with the answer to client.post; with a document it goes on to
\* the expansion call, after a failed attempt to asyncio.sleep, after the last
\* failed attempt to its end
post_resumes(t, ok) ==
    /\ thread = 0
    /\ At(t, "fetch", "answered")
    /\ IF ok
       THEN /\ tasks' = [tasks EXCEPT ![t].at = "expand", ![t].io = "outstanding"]
            /\ thread' = thread_after_call(t)
       ELSE IF tasks[t].attempt < max_retries - 1
       THEN /\ tasks' = [tasks EXCEPT ![t].at = "sleep", ![t].io = "outstanding"]
            /\ thread' = thread_after_await(t)
       ELSE /\ tasks' = [tasks EXCEPT ![t].at = "done", ![t].io = "none"]
            /\ thread' = 0
    /\ UNCHANGED request_vars

\* profit_prediction.py lines 214, 168-176: the loop resumes the coroutine
\* after its sleep; the next pass of the retry loop is suspended in client.post
sleep_resumes(t) ==
    /\ thread = 0
    /\ At(t, "sleep", "answered")
    /\ tasks' = [tasks EXCEPT ![t] =
                    [at |-> "fetch", attempt |-> tasks[t].attempt + 1, io |-> "outstanding"]]
    /\ thread' = thread_after_await(t)
    /\ UNCHANGED request_vars

\* profit_prediction.py lines 269-306, 373-436: generate_content returns and
\* the coroutine runs to its end
expand_returns(t) ==
    /\ thread = t
    /\ At(t, "expand", "answered")
    /\ tasks' = [tasks EXCEPT ![t].at = "done", ![t].io = "none"]
    /\ thread' = 0
    /\ UNCHANGED request_vars

\* the request is answered; the next one of that client may come
request_answered(t) ==
    /\ At(t, "done", "none")
    /\ tasks' = [tasks EXCEPT ![t] = IdleTask]
    /\ UNCHANGED <<thread, request_vars>>

LoopNext ==
    \/ \E t \in Tasks : endpoint_starts(t)
    \/ \E t \in Tasks : provider_answers(t)
    \/ \E t \in Tasks : \E ok \in BOOLEAN : refine_returns(t, ok)
    \/ \E t \in Tasks : \E ok \in BOOLEAN : post_resumes(t, ok)
    \/ \E t \in Tasks : sleep_resumes(t)
    \/ \E t \in Tasks : expand_returns(t)
    \/ \E t \in Tasks : request_answered(t)

LoopSpec == Init /\ [][LoopNext]_vars

-----------------------------------------------------------------------------
(* Claims *)

Done == pc = "done"

InSeq(x, seq) == \E i \in 1..Len(seq) : seq[i] = x

\* every attempt of the fetcher ended in a transport failure
TransportOnly ==
    /\ fetchLog # <<>>
    /\ \A i \in 1..Len(fetchLog) : fetchLog[i] \in {"transport", "http_status"}

FetchFailed == fetched.kind \in {"none", "raised"}

\* C1: a valid /crop-profit request whose pipeline result carries no "unable
\* to fetch" error is answered 200 with the fields of ProfitResponse
C1_ProfitEndpointAnswers ==
    (/\ Done /\ cap = "profit" /\ entry = "api"
     /\ orch.kind = "returned"
     /\ ~says_unable_to_fetch(orch.value))
    => /\ http.status = 200
       /\ ProfitResponse_fields \subseteq DOMAIN http.body

\* C2: in the market, weather and scheme capabilities, a primary fetch that
\* ends with a transport failure on every attempt is answered 503
C2_TransportExhaustionIs503 ==
    (/\ Done /\ entry = "api" /\ cap \in {"market", "weather", "schemes"}
     /\ FetchFailed /\ TransportOnly)
    => http.status = 503

\* C3: a document returned by query_perplexity_for_profit_data, on whatever
\* attempt, holds all four required sections
C3_ReturnedDocumentIsComplete ==
    (cap = "profit" /\ fetched.kind = "doc")
    => profit_required_sections \subseteq DOMAIN fetched.doc

\* C4: after the last attempt the fetcher returns None when that attempt
\* failed for a missing field or a parse failure, and raises only when it
\* failed at transport level (no connection, a non-2xx status, or a reply
\* that is not a completion)
C4_RecoverableExhaustionReturnsNone ==
    (/\ cap \in {"profit", "schemes"} /\ FetchFailed
     /\ Len(fetchLog) = max_retries)
    => LET last == fetchLog[Len(fetchLog)]
       IN  /\ last \in {"missing_field", "parse_error"} => fetched.kind = "none"
           /\ fetched.kind = "raised" =>
                 last \in {"transport", "http_status", "key_error"}

Revenue20 ==
    float(Get(user_input, "expected_yield", "0")) *
        (get_market_price_range(Get(user_input, "crop_name", "Unknown")).min +
         get_market_price_range(Get(user_input, "crop_name", "Unknown")).max)
Profit20 == Revenue20 - 2 * float(Get(user_input, "total_cost", "0"))

FallbackSources == {<<"fallback_calculation">>, <<"market_data", "calculation">>}

WheatScenario ==
    /\ cap = "profit"
    /\ Get(user_input, "crop_name", "Unknown") = "wheat"
    /\ Get(user_input, "expected_yield", "0") = "100"
    /\ Get(user_input, "total_cost", "0") = "50000"

\* C7: wheat, yield 100, cost 50000 and no provider data: revenue "220000",
\* profit "170000", roi "340.0"
C7_WheatScenario ==
    (Done /\ WheatScenario /\ expanded.kind # "doc")
    => /\ orch.value.estimated_revenue = "220000"
       /\ orch.value.estimated_profit = "170000"
       /\ orch.value.roi = "340.0"

C7_Witness ==
    /\ Done /\ WheatScenario /\ fetched.kind = "none"
    /\ orch.value.roi = "340.0"

\* C8: when the expander returns a document the result takes the document's
\* values (in profit prediction the revenue and profit figures and the risk
\* factors leave their defaults) and "gemini" is appended to sources
C8_ExpansionOverwrites ==
    (Done /\ expanded.kind = "doc")
    => /\ orch.kind = "returned"
       /\ Len(orch.value.sources) > 0
       /\ orch.value.sources[Len(orch.value.sources)] = "gemini"
       /\ cap = "profit" =>
             /\ orch.value.estimated_revenue # "0"
             /\ orch.value.estimated_profit # "0"
             /\ orch.value.risk_factors = Native(expanded.doc["risk_factors"])
       /\ cap = "schemes" =>
             orch.value.matched_schemes = Native(expanded.doc["matched_schemes"])
       /\ cap = "market" =>
             orch.value.recommended_action = expanded.doc["recommended_action"]

\* C9: in market, schemes and profit, when the expander returns None the
\* result is returned with an error message recorded on it and without
\* "gemini" in sources
C9_ExpansionNoneRecordsError ==
    (Done /\ cap \in {"market", "schemes", "profit"} /\ expanded.kind = "none")
    => /\ orch.kind = "returned"
       /\ Get(orch.value, "error", NoError) # NoError
       /\ ~InSeq("gemini", orch.value.sources)

\* C10: in every returned result "perplexity" comes before "gemini" when both
\* are in sources, and "gemini" is never there without "perplexity"
C10_SourcesOrder ==
    (orch.kind = "returned" /\ "sources" \in DOMAIN orch.value)
    => LET src == orch.value.sources
       IN  /\ \A i, j \in 1..Len(src) :
                 (src[i] = "perplexity" /\ src[j] = "gemini") => i < j
           /\ InSeq("gemini", src) => InSeq("perplexity", src)

\* the required field set of the capability's expander, and the field the
\* capability wants as a list
ExpanderRequired ==
    CASE cap = "profit" -> profit_required_fields
      [] cap = "schemes" -> scheme_required_fields
      [] OTHER -> advice_required_fields
ExpanderListField == IF cap = "profit" THEN "risk_factors" ELSE "matched_schemes"

\* the last reply holds no parsable object
ReplyUnusable ==
    \/ reply.kind = "exception"
    \/ reply.text = <<>>
    \/ ~BracesFound(reply.text)
    \/ ~json_decodes(JsonStr(reply.text))

TransportWhy == {"transport", "http_status"}

\* the attempts made so far, as far as the first two go, failed at transport level
FirstTwoFailTransport ==
    /\ fetchLog # <<>>
    /\ \A i \in 1..Len(fetchLog) : i <= 2 => fetchLog[i] \in TransportWhy

\* C12: a retrying fetcher whose first two attempts fail at transport level
\* goes on to a third attempt, and when that one succeeds it returns the
\* document after exactly 3 calls and two delays, the second the longer
C12_SucceedsOnThirdAttempt ==
    (cap \in {"profit", "schemes", "weather"} /\ FirstTwoFailTransport)
    => /\ Len(fetchLog) < 3 => fetched.kind = "pending"
       /\ (Len(fetchLog) = 3 /\ fetchLog[3] = "ok") =>
             /\ fetched.kind = "doc"
             /\ calls.fetch = 3
             /\ Len(sleeps) = 2
             /\ sleeps[1] < sleeps[2]

\* C13: a fetcher of profit or schemes whose every attempt fails at transport
\* level stops after exactly max_retries provider calls, with a raised error
C13_ExhaustsAllAttempts ==
    (cap \in {"profit", "schemes"} /\ TransportOnly)
    => /\ calls.fetch <= max_retries
       /\ fetched.kind # "pending" =>
             /\ calls.fetch = max_retries
             /\ fetched.kind = "raised"

ExtractionWhy == {"not_found", "parse_error", "missing_field"}

\* some provider response of the request held no usable document: a fetch
\* attempt, the expansion, or the diagnosis found no JSON, malformed JSON, or
\* an object missing a required field or of the wrong shape
ExtractionFailed ==
    \/ /\ cap \in {"profit", "schemes", "market"}
       /\ \E i \in 1..Len(fetchLog) : fetchLog[i] \in ExtractionWhy
    \/ /\ cap \in {"profit", "schemes", "market"}
       /\ calls.expand = 1 /\ reply.kind = "text" /\ expanded.kind = "none"
    \/ /\ cap = "doctor"
       /\ calls.vision = 1 /\ reply.kind = "text"
       /\ \/ ReplyUnusable
          \/ ~(doctor_required_fields \subseteq DOMAIN json_loads(JsonStr(reply.text)))

\* C14: a request in which an extraction failed still ends with the
\* capability's function returning a result: nothing is raised to the endpoint
C14_ExtractionFailureIsNotRaised ==
    (Done /\ ExtractionFailed) => orch.kind = "returned"

\* C15: an upload to /crop-doctor that is neither image/jpeg nor image/png is
\* answered with a client error, no provider is called and no temporary file
\* is written
C15_NonImageRejected ==
    (cap = "doctor" /\ user_input.content_type \notin {"image/jpeg", "image/png"})
    => /\ Done
       /\ http.status \in 400..499
       /\ calls = NoCalls
       /\ tmp_file = "absent"

C15_Witness ==
    /\ cap = "doctor" /\ user_input.content_type = "text/plain"
    /\ http.status = 422

\* the body of the request lacks a required field or holds an empty one
RequestIncomplete ==
    \/ cap = "profit" /\ DOMAIN user_input # ProfitRequest_fields
    \/ cap = "schemes" /\ DOMAIN user_input # SchemeRequest_fields
    \/ \E field \in DOMAIN user_input : user_input[field] = ""

\* C16: a /govt-schemes or /crop-profit request with a required field missing
\* or empty is answered with a client error and no provider is called for it
C16_IncompleteRequestRejected ==
    (cap \in {"profit", "schemes"} /\ entry = "api" /\ RequestIncomplete)
    => /\ Done
       /\ http.status \in 400..499
       /\ calls = NoCalls
       /\ orch.kind = "pending"

C16_Witness ==
    /\ cap = "schemes" /\ entry = "api"
    /\ DOMAIN user_input = SchemeRequest_fields
    /\ user_input.need = ""
    /\ http.status = 400

\* text[i..j] is a serialized mapping: braces around members of distinct keys
IsObjectAt(text, i, j) ==
    /\ i < j
    /\ text[i].c = "{"
    /\ text[j].c = "}"
    /\ \A k \in (i + 1)..(j - 1) : text[k].c = "m"
    /\ \A k, n \in (i + 1)..(j - 1) : text[k].k = text[n].k => k = n

\* the places of the serialized objects in a text
ObjectsIn(text) ==
    {p \in (1..Len(text)) \X (1..Len(text)) : IsObjectAt(text, p[1], p[2])}

\* the text is prose around exactly one serialized mapping
OneObjectInProse(text) ==
    /\ Cardinality(ObjectsIn(text)) = 1
    /\ LET p == CHOOSE q \in ObjectsIn(text) : TRUE
       IN  \A k \in 1..Len(text) : (k < p[1] \/ k > p[2]) => text[k].c \in {"w", "{", "}"}

\* the mapping that was serialized into the text
MappingIn(text) ==
    LET p == CHOOSE q \in ObjectsIn(text) : TRUE
        at(key) == CHOOSE k \in (p[1] + 1)..(p[2] - 1) : text[k].k = key
    IN  [key \in {text[k].k : k \in (p[1] + 1)..(p[2] - 1)} |-> text[at(key)].v]

\* the prose around the mapping holds no brace
ProseWithoutBraces(text) ==
    LET p == CHOOSE q \in ObjectsIn(text) : TRUE
    IN  \A k \in 1..Len(text) : (k < p[1] \/ k > p[2]) => text[k].c = "w"

\* the last reply is the content the market fetcher extracted from
MarketFetchReply ==
    cap = "market" /\ calls.fetch = 1 /\ calls.expand = 0 /\ reply.kind = "content"

\* C17, as stated: from a text that is prose around exactly one serialized
\* mapping the extraction yields a document equal to the mapping
C17_RoundTrip ==
    (MarketFetchReply /\ OneObjectInProse(reply.text))
    => /\ fetched.kind = "doc"
       /\ fetched.doc = MappingIn(reply.text)

\* C17, amended: the round trip holds when the prose around the mapping holds
\* no brace
C17_RoundTripBraceFreeProse ==
    (MarketFetchReply /\ OneObjectInProse(reply.text) /\ ProseWithoutBraces(reply.text))
    => /\ fetched.kind = "doc"
       /\ fetched.doc = MappingIn(reply.text)

C17_Witness ==
    /\ MarketFetchReply
    /\ OneObjectInProse(reply.text) /\ ProseWithoutBraces(reply.text)
    /\ Len(reply.text) > 4
    /\ reply.text[1].c = "w"
    /\ fetched.kind = "doc"

\* the text has no opening brace or no closing brace
LacksBrace(text) ==
    \/ \A k \in 1..Len(text) : text[k].c # "{"
    \/ \A k \in 1..Len(text) : text[k].c # "}"

\* C18: on a text without an opening brace or without a closing brace the
\* extraction reports "not found": no document, no parse, nothing raised. A
\* fetcher logs the attempt as not found and never raises, an expander
\* returns None, the diagnosis takes its no-JSON result
C18_MissingBraceIsNotFound ==
    /\ (/\ cap \in {"profit", "schemes", "market"}
        /\ calls.fetch >= 1 /\ calls.expand = 0
        /\ reply.kind = "content" /\ LacksBrace(reply.text))
       => /\ fetchLog[Len(fetchLog)] = "not_found"
          /\ fetched.kind \in {"pending", "none"}
    /\ (calls.expand = 1 /\ reply.kind = "text" /\ LacksBrace(reply.text))
       => expanded.kind = "none"
    /\ (cap = "doctor" /\ calls.vision = 1 /\ reply.kind = "text" /\ LacksBrace(reply.text))
       => orch = Returned(doctor_no_json(reply.text))

C18_Witness ==
    /\ cap = "doctor" /\ calls.vision = 1
    /\ reply.kind = "text" /\ reply.text = <<W, LB, W>>
    /\ orch.kind = "returned"

-----------------------------------------------------------------------------
(* The parsed forecast *)

WeatherReturned == cap = "weather" /\ Done /\ orch.kind = "returned"

\* the field of the current conditions a label is read into
LabelField(label) ==
    CASE label = "Temperature" -> "temperature"
      [] label = "Humidity" -> "humidity"
      [] label = "Wind" -> "wind_speed"

\* the labels followed by a colon that stand on a line
LabelsOn(line) ==
    {label \in {"Temperature", "Humidity", "Wind"} :
        \E k \in 1..Len(line) : IsLabel(line[k], label)}

\* C19: every label that stands on a line of the "Current conditions"
\* section is read: its field of the result holds what stands after the
\* label and before the next semicolon. For the one line
\* "- Temperature: 31°C; Humidity: 60%" the temperature is "31°C" and the
\* humidity "60%"
C19_EveryLabelOnALineIsRead ==
    WeatherReturned =>
        LET section == current_section(Sections(fetched.doc.raw_forecast))
            found == orch.value.weather_data.current_conditions
        IN  /\ \A i \in 1..Len(section) : \A label \in LabelsOn(section[i]) :
                  found[LabelField(label)] = LabelValue(section[i], label)
            /\ fetched.doc.raw_forecast = << <<ConditionsHeading, TemperatureAndHumidity>> >>
                  => /\ found.temperature = <<Tok("31°C", "")>>
                     /\ found.humidity = <<Tok("60%", "")>>

\* C20: every result of the weather pipeline has non-empty risk_alerts,
\* protective_measures, water_conservation_tips and irrigation_schedule and
\* non-empty notes, whatever the forecast text holds; a list the scan of the
\* text left empty holds one placeholder entry, and the endpoint answers 200
\* with that result
C20_WeatherResultHasNoEmptyCategory ==
    WeatherReturned =>
        LET content == fetched.doc.raw_forecast
            result == orch.value
        IN  /\ result.risk_alerts # <<>>
            /\ result.protective_measures # <<>>
            /\ result.water_conservation_tips # <<>>
            /\ result.irrigation_schedule # <<>>
            /\ result.notes # <<>>
            /\ \A i \in 1..Len(result.irrigation_schedule) :
                  result.irrigation_schedule[i].action # <<>>
            /\ alerts(content) = <<>> => Len(result.risk_alerts) = 1
            /\ protective_measures(content) = <<>> => Len(result.protective_measures) = 1
            /\ conservation_tips(content) = <<>> => Len(result.water_conservation_tips) = 1
            /\ entry = "api" => http = HttpOk(result)

\* a forecast whose scan finds tips and measures but no alert and no note
C20_Witness ==
    /\ WeatherReturned
    /\ alerts(fetched.doc.raw_forecast) = <<>>
    /\ notes(fetched.doc.raw_forecast) = <<>>
    /\ conservation_tips(fetched.doc.raw_forecast) # <<>>
    /\ Len(orch.value.irrigation_schedule) = 2

-----------------------------------------------------------------------------
(* Retries, backoff and the order of the provider calls *)

\* C21: in the fetchers of profit and schemes an attempt answered with an
\* HTTP error status is a failed attempt like a network error: while fewer
\* than max_retries attempts are made the fetcher has not ended but waits
\* for its next attempt, and it gives up only after max_retries attempts
C21_HttpErrorStatusIsRetried ==
    (/\ cap \in {"profit", "schemes"}
     /\ fetchLog # <<>>
     /\ fetchLog[Len(fetchLog)] = "http_status")
    => /\ Len(fetchLog) < max_retries => (fetched.kind = "pending" /\ pc = "sleep")
       /\ fetched.kind # "pending" => calls.fetch = max_retries

\* C22: in the three retrying fetchers a delay of 2^attempt seconds lies
\* between every two consecutive attempts, whatever ended the earlier one:
\* when the next provider call is due every attempt made so far has been
\* followed by its delay, the delays are 1, 2, ... seconds, and no delay
\* follows the attempt that ends the fetcher
C22_BackoffBetweenAttempts ==
    cap \in {"profit", "schemes", "weather"}
    => /\ pc = "fetch" => Len(sleeps) = calls.fetch
       /\ \A i \in 1..Len(sleeps) : sleeps[i] = 2 ^ (i - 1)
       /\ (fetched.kind # "pending" /\ calls.fetch >= 1) => Len(sleeps) = calls.fetch - 1

\* the refiner has answered and its answer gave no query: an exception of the
\* provider or an empty text
RefinementFailed ==
    /\ cap \in {"profit", "schemes"}
    /\ calls.refine = 1 /\ calls.fetch = 0 /\ calls.expand = 0
    /\ ~(reply.kind = "text" /\ reply.text # <<>>)

\* C23: when the refinement fails the orchestrator of profit or schemes ends
\* at once with a fatal error: the fetcher and the expander are not called,
\* and what the caller gets is an exception or a result that carries the
\* error and nothing computed (no source, no fallback figures), which the
\* endpoint does not answer as a success
C23_RefinementFailureIsFatal ==
    RefinementFailed
    => /\ Done
       /\ \/ orch.kind = "raised"
          \/ /\ orch.kind = "returned"
             /\ Get(orch.value, "error", NoError) # NoError
             /\ orch.value.sources = <<>>
       /\ entry = "api" => http.status >= 400

-----------------------------------------------------------------------------
(* The numeric fallback *)

\* the profit result comes from a numeric fallback: the fetcher gave nothing,
\* the expander gave nothing, or an exception was caught, and the user's
\* figures are numbers
NumericFallback ==
    /\ Done /\ cap = "profit" /\ orch.kind = "returned"
    /\ \/ orch.value.sources \in FallbackSources
       \/ expanded.kind = "none"
    /\ float_ok(Get(user_input, "expected_yield", "0"))
    /\ float_ok(Get(user_input, "total_cost", "0"))

\* C24: in every numeric fallback of profit prediction the revenue is yield x
\* the average of the table's price range, the profit is the revenue less
\* the total cost, and the roi is profit / total_cost x 100 when the total
\* cost is above 0 and the sentinel 0 otherwise
C24_FallbackArithmetic ==
    NumericFallback
    => LET total_cost == float(Get(user_input, "total_cost", "0"))
       IN  /\ orch.value.estimated_revenue = ToString(int(Revenue20, 20))
           /\ orch.value.estimated_profit = ToString(int(Profit20, 20))
           /\ total_cost > 0 => orch.value.roi = Format1f(Profit20 * 50, total_cost)
           /\ total_cost = 0 => orch.value.roi \in {"0", "0.0"}

-----------------------------------------------------------------------------
(* Braces in the wrong order, headings in another letter case *)

\* the text has both braces, and its last closing brace stands before its
\* first opening brace
BracesReversed(text) ==
    /\ find(text, "{") # -1
    /\ rfind(text, "}") # -1
    /\ rfind(text, "}") < find(text, "{")

\* C25: a text whose last closing brace comes before its first opening brace
\* is "not found", as a text without a brace is, and no parse error: the
\* fetcher logs the attempt as not found and ends without raising, the
\* expander returns None, the diagnosis takes its no-JSON result
C25_ReversedBracesAreNotFound ==
    /\ (/\ cap \in {"profit", "schemes", "market"}
        /\ calls.fetch >= 1 /\ calls.expand = 0
        /\ reply.kind = "content" /\ BracesReversed(reply.text))
       => /\ fetchLog[Len(fetchLog)] = "not_found"
          /\ fetched.kind # "raised"
    /\ (calls.expand = 1 /\ reply.kind = "text" /\ BracesReversed(reply.text))
       => expanded.kind = "none"
    /\ (cap = "doctor" /\ calls.vision = 1 /\ reply.kind = "text" /\ BracesReversed(reply.text))
       => orch = Returned(doctor_no_json(reply.text))

\* the heading keyword that word.lower() holds
HeadingLower(w) ==
    CASE w \in {"Current conditions", "CURRENT CONDITIONS"} -> "current conditions"
      [] w \in {"7-day forecast", "7-Day Forecast"} -> "7-day forecast"
      [] OTHER -> ""

\* the section holds the keyword in some letter case
Headed(section, keyword) ==
    \E i \in 1..Len(section) : \E k \in 1..Len(section[i]) :
        HeadingLower(section[i][k].w) = keyword

\* C26: the current conditions are read from the first section holding
\* "current conditions" in any letter case, and the daily forecast from the
\* first section holding "7-day forecast" in any letter case: a section
\* headed "CURRENT CONDITIONS" or "7-Day Forecast" is selected as its
\* lower-case spelling would be
C26_HeadingsMatchInAnyCase ==
    WeatherReturned =>
        LET sections == Sections(fetched.doc.raw_forecast)
            IsCurrent(section) == Headed(section, "current conditions")
            IsForecast(section) == Headed(section, "7-day forecast")
            days == SelectSeq(FirstSection(sections, IsForecast), is_forecast_line)
            result == orch.value.weather_data
        IN  /\ (\E i \in 1..Len(sections) : IsCurrent(sections[i]))
               => result.current_conditions =
                     conditions_lines(conditions_default, FirstSection(sections, IsCurrent))
            /\ result.daily_forecast = [i \in 1..Len(days) |-> forecast_day(days[i])]

-----------------------------------------------------------------------------
(* Concurrent requests *)

\* the request waits for a provider to answer a call, or for its backoff
\* delay to pass
WaitsOnProvider(t) == tasks[t].io = "outstanding"

\* the event loop could run the coroutine of the request if its thread were free
Runnable(t) ==
    \/ At(t, "idle", "none")
    \/ At(t, "fetch", "answered")
    \/ At(t, "sleep", "answered")

\* C27: while a request waits on a provider call (refinement, fetch,
\* expansion) or on its backoff delay, it does not hold the thread of the
\* event loop, so that every other request that can run is run: each of these
\* places is a suspension point
C27_ProviderCallsSuspend ==
    \A t \in Tasks : WaitsOnProvider(t) =>
        /\ thread # t
        /\ \A u \in Tasks \ {t} : Runnable(u) =>
              \/ ENABLED endpoint_starts(u)
              \/ ENABLED (\E ok \in BOOLEAN : post_resumes(u, ok))
              \/ ENABLED sleep_resumes(u)

-----------------------------------------------------------------------------
(* The expander and the advice *)

-----------------------------------------------------------------------------
(* The temporary file of /crop-doctor *)

-----------------------------------------------------------------------------
(* The market result *)

\* C30: every result analyze_market returns has sources ["perplexity"] or
\* ["perplexity", "gemini"]; the five advice fields are all in the result
\* when "gemini" is a source and none of them is otherwise, and they hold
\* what the advice document held; trend_info is the fetched document
C30_MarketResultShape ==
    (cap = "market" /\ orch.kind = "returned")
    => LET result == orch.value
           advised == InSeq("gemini", result.sources)
       IN  /\ result.sources \in {<<"perplexity">>, <<"perplexity", "gemini">>}
           /\ advised => advice_required_fields \subseteq DOMAIN result
           /\ ~advised => advice_required_fields \cap DOMAIN result = {}
           /\ advised <=> expanded.kind = "doc"
           /\ advised => \A field \in advice_required_fields :
                            result[field] = expanded.doc[field]
           /\ result.trend_info = fetched.doc
           /\ fetched.kind = "doc"

\* a market result with the advice
C30_Witness ==
    /\ cap = "market" /\ orch.kind = "returned"
    /\ orch.value.sources = <<"perplexity", "gemini">>
    /\ "notes" \in DOMAIN orch.value

\* a market result without the advice
C30_WitnessUnadvised ==
    /\ cap = "market" /\ orch.kind = "returned"
    /\ orch.value.sources = <<"perplexity">>
    /\ calls.expand = 1

====
